---- MODULE Spec2Model ----
(***************************************************************************)
(* A model of the NAPI allocation engine: the IP model                     *)
(* (lib/models/ip), the moray convenience wrappers (lib/apis/moray.js)     *)
(* and the batch coordinator commitBatch.                                  *)
(*                                                                         *)
(* JavaScript objects are records whose DOMAIN is the set of own           *)
(* properties; strings that the code compares or searches (bucket names,   *)
(* keys, printed addresses) are sequences of character codes.              *)
(***************************************************************************)
EXTENDS Integers, Sequences, FiniteSets, TLC

VARIABLES
    moray,      \* the store: <<bucket, key>> -> [value, _etag]
    nextEtag,   \* number of version tokens the store has issued
    network,    \* the network object the IP requests are bound to
    callers,    \* per request handler: position and local variables
    hist,       \* log of the conditional claims the store committed
    opts,       \* commitBatch: the opts object (batch, nic, ips)
    sent,       \* commitBatch: the array handed to moray.batch
    cbres,      \* commitBatch: what the callback received
    txns,       \* in-flight store transactions (row-lock level)
    locks       \* row locks: <<bucket, key>> -> transaction

vars == <<moray, nextEtag, network, callers, hist, opts, sent, cbres,
          txns, locks>>

-----------------------------------------------------------------------------
(* Bounds *)

NAddr == 2          \* addresses in the provisionable range
NCallers == 2       \* concurrent request handlers
MaxEtag == 3        \* version tokens the store may issue in one run
MaxBatchLen == 3    \* longest opts.batch given to commitBatch

MaxNetList == 3     \* longest list of candidate networks tried in full
FirstAddr == 9
Addrs == FirstAddr .. (FirstAddr + NAddr - 1)
Callers == 1 .. NCallers

-----------------------------------------------------------------------------
(* Strings *)

Min(a, b) == IF a < b THEN a ELSE b

\* JavaScript's a < b on strings: lexicographic on code units
StrLess(a, b) ==
    \E i \in 1 .. (Min(Len(a), Len(b)) + 1) :
        /\ \A j \in 1 .. (i - 1) : a[j] = b[j]
        /\ \/ i > Len(a) /\ i <= Len(b)
           \/ i <= Len(a) /\ i <= Len(b) /\ a[i] < b[i]

\* s.indexOf(sub) !== -1
Contains(s, sub) ==
    \E i \in 1 .. (Len(s) - Len(sub) + 1) :
        SubSeq(s, i, i + Len(sub) - 1) = sub

\* s.replace(/-/g, '_')
ReplaceDash(s) == [i \in 1 .. Len(s) |-> IF s[i] = 45 THEN 95 ELSE s[i]]

RECURSIVE NumToStr(_)
\* Number.prototype.toString() of a non-negative integer
NumToStr(n) ==
    IF n < 10 THEN <<48 + n>>
    ELSE Append(NumToStr(n \div 10), 48 + (n % 10))

RECURSIVE StrToNum(_)
StrToNum(s) ==
    IF Len(s) = 0 THEN 0
    ELSE 10 * StrToNum(SubSeq(s, 1, Len(s) - 1)) + (s[Len(s)] - 48)

\* ipaddr.toString() of an IPv4 address held as its 32-bit value
AddrToString(n) ==
    NumToStr((n \div 16777216) % 256) \o <<46>> \o
    NumToStr((n \div 65536) % 256) \o <<46>> \o
    NumToStr((n \div 256) % 256) \o <<46>> \o
    NumToStr(n % 256)

\* positions of the dots of a printed address
Dots(s) == {i \in 1 .. Len(s) : s[i] = 46}

RECURSIVE ParseOctets(_, _)
ParseOctets(s, acc) ==
    IF Dots(s) = {} THEN acc * 256 + StrToNum(s)
    ELSE LET d == CHOOSE i \in Dots(s) : \A j \in Dots(s) : i <= j
         IN ParseOctets(SubSeq(s, d + 1, Len(s)),
                        acc * 256 + StrToNum(SubSeq(s, 1, d - 1)))

\* util_ip.toIPAddr of a printed address
toIPAddr(s) == ParseOctets(s, 0)

-----------------------------------------------------------------------------
(* JavaScript objects *)

Has(o, k) == k \in DOMAIN o
Merge(o, p) ==
    [k \in DOMAIN o \cup DOMAIN p |-> IF k \in DOMAIN p THEN p[k] ELSE o[k]]
Delete(o, ks) == [k \in DOMAIN o \ ks |-> o[k]]
Only(o, ks) == [k \in DOMAIN o \cap ks |-> o[k]]
EmptyObj == [k \in {} |-> 0]

-----------------------------------------------------------------------------
(* Names and values of the model's world *)

STR_napi_nics == <<110, 97, 112, 105, 95, 110, 105, 99, 115>>
STR_napi_networks ==
    <<110, 97, 112, 105, 95, 110, 101, 116, 119, 111, 114, 107, 115>>
STR_napi_ips_ == <<110, 97, 112, 105, 95, 105, 112, 115, 95>>
STR_portolan == <<112, 111, 114, 116, 111, 108, 97, 110>>
STR_portolan_mac_ip == STR_portolan \o <<95, 109, 97, 99, 95, 105, 112>>
STR_portolan_net_events ==
    STR_portolan \o <<95, 110, 101, 116, 95, 101, 118, 101, 110, 116, 115>>

\* network UUIDs, shortened: "a-1", "b-2"
NetUUIDs == {<<97, 45, 49>>, <<98, 45, 50>>}
NetUUID == <<97, 45, 49>>

UFDS_ADMIN_UUID == <<"admin">>
NULL == 0               \* etag null
NOETAG == 0 - 1         \* no etag option given to the store

Err_none == "none"
Err_EtagConflict == "EtagConflictError"
Err_ObjectNotFound == "ObjectNotFoundError"
Err_ResourceNotFound == "ResourceNotFoundError"
Err_Validation == "InvalidParameters"


-----------------------------------------------------------------------------
(* The store (moray), as the code uses it: getObject, putObject with an    *)
(* optional etag, and batch.  A row is [value, _etag].                     *)

RowId(bucket, key) == <<bucket, key>>
HasRow(st, bucket, key) == RowId(bucket, key) \in DOMAIN st

\* the etag test of a put: no option = unconditional, null = the row must
\* not exist, otherwise the row must exist with that etag
EtagOk(st, bucket, key, etag) ==
    IF etag = NOETAG THEN TRUE
    ELSE IF etag = NULL THEN ~HasRow(st, bucket, key)
    ELSE HasRow(st, bucket, key) /\ st[RowId(bucket, key)]._etag = etag

WriteRow(st, bucket, key, value, etag) ==
    [id \in DOMAIN st \cup {RowId(bucket, key)} |->
        IF id = RowId(bucket, key)
        THEN [value |-> value, _etag |-> etag]
        ELSE st[id]]

RemoveRow(st, bucket, key) ==
    [id \in DOMAIN st \ {RowId(bucket, key)} |-> st[id]]

\* moray.getObject
getObject(st, bucket, key) ==
    IF HasRow(st, bucket, key)
    THEN [err |-> Err_none, rec |-> st[RowId(bucket, key)]]
    ELSE [err |-> Err_ObjectNotFound, rec |-> EmptyObj]

\* moray.putObject(bucket, key, value, {etag: etag}); e is the fresh token
putObject(st, bucket, key, value, etag, e) ==
    IF EtagOk(st, bucket, key, etag)
    THEN [err |-> Err_none, st |-> WriteRow(st, bucket, key, value, e),
          etag |-> e]
    ELSE [err |-> Err_EtagConflict, st |-> st, etag |-> NULL]

\* the etag option of one batch request (absent when it has no options)
ReqEtag(r) ==
    IF Has(r, "options") /\ Has(r.options, "etag") THEN r.options.etag
    ELSE NOETAG

RECURSIVE BatchRun(_, _, _, _, _)
\* the requests of a batch run in order i, i+1, ... inside one transaction
BatchRun(st, batch, i, e, etags) ==
    IF i > Len(batch) THEN [err |-> Err_none, st |-> st, etags |-> etags]
    ELSE LET r == batch[i] IN
         IF r.operation = "put"
         THEN IF EtagOk(st, r.bucket, r.key, ReqEtag(r))
              THEN BatchRun(WriteRow(st, r.bucket, r.key, r.value, e + 1),
                            batch, i + 1, e + 1,
                            Append(etags, [bucket |-> r.bucket,
                                           key |-> r.key, etag |-> e + 1]))
              ELSE [err |-> Err_EtagConflict, st |-> st, etags |-> <<>>]
         ELSE IF HasRow(st, r.bucket, r.key)
                 /\ EtagOk(st, r.bucket, r.key, ReqEtag(r))
              THEN BatchRun(RemoveRow(st, r.bucket, r.key), batch, i + 1,
                            e, etags)
              ELSE [err |-> IF HasRow(st, r.bucket, r.key)
                            THEN Err_EtagConflict ELSE Err_ObjectNotFound,
                    st |-> st, etags |-> <<>>]

\* moray.batch: all requests or none
morayBatch(st, batch, e) ==
    LET r == BatchRun(st, batch, 1, e, <<>>)
    IN IF r.err = Err_none THEN r
       ELSE [err |-> r.err, st |-> st, etags |-> <<>>]

NumPuts(batch) == Cardinality({i \in 1 .. Len(batch) :
                                  batch[i].operation = "put"})

-----------------------------------------------------------------------------
(* lib/models/ip/common.js *)

BUCKET_version == 2
OPTIONAL_PARAMS == {"belongs_to_type", "belongs_to_uuid", "owner_uuid"}

\* the properties of this.params that some method of IP reads
IP_READ ==
    {"ip", "network", "network_uuid", "reserved"} \cup OPTIONAL_PARAMS

\* the reserved of new IP(params): a boolean is kept, any other value
\* (written here as the property reserved_text) is true only for 'true'
IPparamsReserved(params) ==
    IF Has(params, "reserved_text")
    THEN [reserved |-> params.reserved_text = "true"]
    ELSE EmptyObj

\* function IP(params): params.ip is an address (or its long value),
\* params.ipaddr a printed address; properties of params that no method
\* reads are not kept
IP(params) ==
    [params |-> Merge(Merge(Only(params, IP_READ), IPparamsReserved(params)),
        [ip |-> IF Has(params, "ipaddr") THEN toIPAddr(params.ipaddr)
                ELSE params.ip]),
     etag |-> IF Has(params, "etag") THEN params.etag ELSE NULL,
     use_strings |-> (Has(params, "use_strings") /\ params.use_strings)
                     \/ params.network.ip_use_strings]

getIPKey(use_strings, ipaddr) ==
    IF ~use_strings THEN NumToStr(ipaddr) ELSE AddrToString(ipaddr)

bucketName(networkUUID) == STR_napi_ips_ \o ReplaceDash(networkUUID)

IPkey(ip) == getIPKey(ip.use_strings, ip.params.ip)

IPreserved(ip) == Has(ip.params, "reserved") /\ ip.params.reserved

\* a raw() that stores reserved and the address only
IPrawWithoutOptional(ip) ==
    Merge([reserved |-> IPreserved(ip), use_strings |-> ip.use_strings],
          IF ip.use_strings
          THEN [ipaddr |-> AddrToString(ip.params.ip), v |-> BUCKET_version]
          ELSE [ip |-> ip.params.ip])

IPraw(ip) ==
    Merge(Merge([reserved |-> IPreserved(ip),
                 use_strings |-> ip.use_strings],
                IF ip.use_strings
                THEN [ipaddr |-> AddrToString(ip.params.ip),
                      v |-> BUCKET_version]
                ELSE [ip |-> ip.params.ip]),
          Only(ip.params, OPTIONAL_PARAMS))

\* a free that looks at the reserved flag only
IPserializeFreeByReserved(ip) == IF IPreserved(ip) THEN FALSE ELSE TRUE

\* the free of serialize(): not reserved, and switched off by every
\* optional parameter the record has
IPserializeFree(ip) ==
    IF \E param \in OPTIONAL_PARAMS : Has(ip.params, param) THEN FALSE
    ELSE IF IPreserved(ip) THEN FALSE ELSE TRUE

IPserialize(ip) ==
    Merge([ip |-> AddrToString(ip.params.ip),
           network_uuid |-> ip.params.network.uuid,
           reserved |-> IPreserved(ip),
           free |-> IPserializeFree(ip)],
          Only(ip.params, OPTIONAL_PARAMS))

\* a batch() that leaves the etag option out
IPbatchEtagMissing(ip) == NOETAG

IPbatchEtag(ip) == ip.etag

IPbatch(ip) ==
    [bucket |-> bucketName(ip.params.network_uuid),
     key |-> IPkey(ip),
     operation |-> "put",
     value |-> IPraw(ip),
     options |-> [etag |-> IPbatchEtag(ip)]]

\* an unassignBatch() that drops the owner of reserved addresses too
IPunassignDeletesAll(ip) ==
    {"owner_uuid", "belongs_to_type", "belongs_to_uuid"}

\* the properties unassignBatch() deletes from the value
IPunassignDeletes(ip) ==
    (IF ~IPreserved(ip) THEN {"owner_uuid"} ELSE {})
    \cup {"belongs_to_type", "belongs_to_uuid"}

IPunassignBatch(ip) ==
    LET batchObj == IPbatch(ip)
        value == Delete(batchObj.value, IPunassignDeletes(ip))
    IN Merge(batchObj, [value |-> value])

\* a provisionable() that looks at the missing fields only
IPprovisionableUnassignedOnly(ip) ==
    ~Has(ip.params, "belongs_to_uuid") \/ ~Has(ip.params, "belongs_to_type")

IPprovisionable(ip) ==
    IF ~Has(ip.params, "belongs_to_uuid") \/ ~Has(ip.params, "belongs_to_type")
    THEN TRUE
    ELSE IF ip.params.belongs_to_type = "other"
            /\ ip.params.belongs_to_uuid = UFDS_ADMIN_UUID
    THEN TRUE
    ELSE FALSE

-----------------------------------------------------------------------------
(* lib/apis/moray.js, second part: compareRequests and commitBatch *)

\* a comparator that orders bucket names ascending
compareRequestsAscending(a, b) ==
    IF StrLess(a.bucket, b.bucket) THEN 0 - 1
    ELSE IF StrLess(b.bucket, a.bucket) THEN 1
    ELSE IF StrLess(a.key, b.key) THEN 0 - 1
    ELSE IF StrLess(b.key, a.key) THEN 1
    ELSE 0

compareRequests(a, b) ==
    IF StrLess(a.bucket, b.bucket) THEN 1
    ELSE IF StrLess(b.bucket, a.bucket) THEN 0 - 1
    ELSE IF StrLess(a.key, b.key) THEN 0 - 1
    ELSE IF StrLess(b.key, a.key) THEN 1
    ELSE 0

IndexPerms(n) ==
    {p \in [1 .. n -> 1 .. n] : \A i, j \in 1 .. n : p[i] = p[j] => i = j}

\* Array.prototype.sort(compareRequests): some arrangement of the array
\* that the comparator accepts; the order of requests that compare equal
\* is left to the engine
SortResults(arr) ==
    {[i \in 1 .. Len(arr) |-> arr[p[i]]] : p \in
        {q \in IndexPerms(Len(arr)) :
            \A i \in 1 .. (Len(arr) - 1) :
                compareRequests(arr[q[i]], arr[q[i + 1]]) <= 0}}

isPortolan(r) == Contains(r.bucket, STR_portolan)

RECURSIVE splitBatch(_, _)
\* the forEach of commitBatch: the requests whose bucket name does
\* (portolan = TRUE) or does not contain 'portolan', in batch order
splitBatch(batch, portolan) ==
    IF Len(batch) = 0 THEN <<>>
    ELSE IF isPortolan(Head(batch)) = portolan
         THEN <<Head(batch)>> \o splitBatch(Tail(batch), portolan)
         ELSE splitBatch(Tail(batch), portolan)

nbatchOf(batch) == splitBatch(batch, FALSE)
pbatchOf(batch) == splitBatch(batch, TRUE)

\* an nbatch left in the order of opts.batch
unsortedNbatch(batch) == {nbatchOf(batch)}

\* nbatch.sort(compareRequests)
sortedNbatch(batch) == SortResults(nbatchOf(batch))

\* a commitBatch that sorts all of opts.batch
commitBatchSendsAllSorted(batch) == SortResults(batch)

\* the arrays commitBatch may hand to moray.batch for opts.batch
commitBatchSends(batch) ==
    {nb \o pbatchOf(batch) : nb \in sortedNbatch(batch)}

-----------------------------------------------------------------------------
(* lib/models/ip/index.js *)

NIC_SHARED_PARAMS ==
    {"belongs_to_type", "belongs_to_uuid", "check_owner", "owner_uuid",
     "reserved"}
OWNING_FIELDS == {"belongs_to_uuid", "belongs_to_type", "owner_uuid"}

\* getIP: the key it reads
getIPReadKey(net, addr) == getIPKey(net.ip_use_strings, addr)

\* getIP with opts.returnObject, on the answer of getObj
getIPResult(net, addr, got) ==
    IF got.err # Err_none
    THEN IP([etag |-> NULL, free |-> TRUE, ip |-> addr, network |-> net,
             network_uuid |-> net.uuid, reserved |-> FALSE])
    ELSE IP(Merge(got.rec.value,
                  [network |-> net, network_uuid |-> net.uuid,
                   etag |-> got.rec._etag]))

\* a getIP that gives an IP object for a missing row to every caller
getIPCallbackAlwaysObject(net, addr, got, returnObject) ==
    [err |-> Err_none,
     ip |-> IP(IF got.err # Err_none
               THEN [etag |-> NULL, ip |-> addr, network |-> net,
                     network_uuid |-> net.uuid, reserved |-> FALSE]
               ELSE Merge(got.rec.value,
                          [network |-> net, network_uuid |-> net.uuid,
                           etag |-> got.rec._etag]))]

\* getIP's callback arguments, on the answer of getObj (a failed getObj
\* is a 404 here)
getIPCallback(net, addr, got, returnObject) ==
    IF got.err # Err_none /\ ~returnObject
    THEN [err |-> Err_ResourceNotFound]
    ELSE [err |-> Err_none, ip |-> getIPResult(net, addr, got)]

createUpdatedObject(oldIP, params) ==
    LET ser == IPserialize(oldIP)
        updatedIpParams ==
            Merge(Merge(ser, Only(params, NIC_SHARED_PARAMS)),
                  [etag |-> oldIP.etag, network |-> oldIP.params.network])
    IN IP(Merge(updatedIpParams, [ip |-> toIPAddr(updatedIpParams.ip)]))

-----------------------------------------------------------------------------
(* State shared by the specifications *)

Network(use_strings, owners) ==
    [uuid |-> NetUUID, ip_use_strings |-> use_strings,
     owner_uuids |-> owners, fabric |-> FALSE]

IPBucket == bucketName(NetUUID)

VM(c) == <<"vm", c>>
Owner(n) == <<"owner", n>>

\* a handler's locals: the IP object it works on and, while updateObj's
\* putObject is under way, updateOpts (key, etag) and the value to store
IdleCaller ==
    [pc |-> "idle", existingIP |-> EmptyObj, updateOpts |-> EmptyObj,
     value |-> EmptyObj, err |-> Err_none, ret |-> EmptyObj, tries |-> 0]

\* the log of committed writes is kept only in the specifications whose
\* claims read it; it keeps every create and the writes of the latest
\* commit
NoLog == {[off |-> TRUE]}

CreateOps == {"createIP", "batch-create"}

LogOf(entries) ==
    IF hist = NoLog THEN hist
    ELSE {h \in hist : h.op \in CreateOps} \cup entries

Logged(c, op, req, etag) ==
    hist' = LogOf({[caller |-> c, op |-> op, bucket |-> req.bucket,
                    key |-> req.key, read |-> ReqEtag(req),
                    etag |-> etag]})

NoOpts == [batch |-> <<>>]
NoCbres == [called |-> FALSE, err |-> Err_none]
NoTxns == [t \in {} |-> 0]
NoLocks == [id \in {} |-> 0]

\* the row an address has before a run starts
StartValue(net, addr, kind) ==
    IPraw(IP(Merge([ip |-> addr, network |-> net, network_uuid |-> net.uuid,
                    reserved |-> FALSE],
        IF kind = "other"
        THEN [belongs_to_type |-> "other",
              belongs_to_uuid |-> UFDS_ADMIN_UUID,
              owner_uuid |-> UFDS_ADMIN_UUID]
        ELSE IF kind = "taken"
        THEN [belongs_to_type |-> "zone", belongs_to_uuid |-> VM(0),
              owner_uuid |-> Owner(1)]
        ELSE EmptyObj)))

\* a bucket in which address a has the row kinds[a] ("absent": no row)
StartStore(net, kinds) ==
    [id \in {RowId(IPBucket, getIPKey(net.ip_use_strings, a)) :
                a \in {b \in Addrs : kinds[b] # "absent"}} |->
        LET a == CHOOSE b \in Addrs :
                    id = RowId(IPBucket, getIPKey(net.ip_use_strings, b))
        IN [value |-> StartValue(net, a, kinds[a]),
            _etag |-> a - FirstAddr + 1]]

-----------------------------------------------------------------------------
(* Specification SpecAlloc: concurrent callers that each look for a        *)
(* provisionable address and claim it (getIP, provisionable,               *)
(* createUpdatedObject, IP.batch, commitBatch)                             *)

AllocParams(c) ==
    [belongs_to_type |-> "zone", belongs_to_uuid |-> VM(c),
     owner_uuid |-> Owner(1)]

InitAlloc ==
    /\ \E us \in BOOLEAN : network = Network(us, {})
    /\ \E kinds \in [Addrs -> {"absent", "free", "other", "taken"}] :
            moray = StartStore(network, kinds)
    /\ nextEtag = NAddr
    /\ callers = [c \in Callers |-> IdleCaller]
    /\ hist = {}
    /\ opts = NoOpts /\ sent = <<>> /\ cbres = NoCbres
    /\ txns = NoTxns /\ locks = NoLocks

\* getIP({returnObject: true}) for a candidate address
AllocRead(c, a) ==
    /\ callers[c].pc = "idle"
    /\ callers' = [callers EXCEPT ![c] = Merge(@,
            [pc |-> "read",
             existingIP |-> getIPResult(network, a,
                getObject(moray, IPBucket, getIPReadKey(network, a)))])]
    /\ UNCHANGED <<moray, nextEtag, network, hist, opts, sent, cbres,
                   txns, locks>>

\* the candidate is held by someone: look at another address
AllocSkip(c) ==
    /\ callers[c].pc = "read"
    /\ ~IPprovisionable(callers[c].existingIP)
    /\ callers' = [callers EXCEPT ![c] = Merge(@, [pc |-> "idle"])]
    /\ UNCHANGED <<moray, nextEtag, network, hist, opts, sent, cbres,
                   txns, locks>>

\* claim the candidate: commitBatch of the updated object's batch()
AllocClaim(c) ==
    /\ callers[c].pc = "read"
    /\ IPprovisionable(callers[c].existingIP)
    /\ LET newIP == createUpdatedObject(callers[c].existingIP, AllocParams(c))
           req == IPbatch(newIP)
       IN \E b \in commitBatchSends(<<req>>) :
            LET r == morayBatch(moray, b, nextEtag) IN
            IF r.err = Err_none
            THEN /\ moray' = r.st
                 /\ nextEtag' = nextEtag + NumPuts(b)
                 /\ hist' = hist \cup
                        {[caller |-> c, op |-> "batch",
                          bucket |-> req.bucket,
                          key |-> req.key, read |-> ReqEtag(req),
                          etag |-> r.etags[1].etag]}
                 /\ callers' = [callers EXCEPT ![c] = Merge(@,
                        [pc |-> "done", ret |-> newIP])]
            ELSE /\ callers' = [callers EXCEPT ![c] = Merge(@,
                        [pc |-> "idle", err |-> r.err,
                         tries |-> @.tries + 1])]
                 /\ UNCHANGED <<moray, nextEtag, hist>>
    /\ UNCHANGED <<network, opts, sent, cbres, txns, locks>>

NextAlloc ==
    \/ \E c \in Callers, a \in Addrs : AllocRead(c, a)
    \/ \E c \in Callers : AllocSkip(c)
    \/ \E c \in Callers : AllocClaim(c)

SpecAlloc == InitAlloc /\ [][NextAlloc]_vars

\* C1: no address is handed out twice.  Of the claims that carry the same
\* observed version of a row (its etag, null when there was no row) at most
\* one commits; callers that have finished hold pairwise distinct addresses
\* and each address's row names the caller that claimed it.
C1_NoDoubleAssignment ==
    /\ \A h1, h2 \in hist :
         (h1.bucket = h2.bucket /\ h1.key = h2.key /\ h1.read = h2.read)
            => h1 = h2
    /\ \A c1, c2 \in Callers :
         (c1 # c2 /\ callers[c1].pc = "done" /\ callers[c2].pc = "done")
            => callers[c1].ret.params.ip # callers[c2].ret.params.ip
    /\ \A c \in Callers : callers[c].pc = "done" =>
         LET k == IPkey(callers[c].ret) IN
         /\ HasRow(moray, IPBucket, k)
         /\ moray[RowId(IPBucket, k)].value.belongs_to_uuid = VM(c)

\* every caller has its address, and one of them lost a race on the way
C1_Witness ==
    /\ \A c \in Callers : callers[c].pc = "done"
    /\ \E c \in Callers : callers[c].tries > 0
    /\ Cardinality(hist) = NCallers

-----------------------------------------------------------------------------
(* lib/models/ip/index.js: validation, createIP, updateIP, deleteIP,       *)
(* batchCreateIPs                                                          *)

\* network.isOwner(uuid)
isOwner(net, uuid) ==
    \/ net.owner_uuids = {}
    \/ uuid \in net.owner_uuids
    \/ uuid = UFDS_ADMIN_UUID

\* validate.params, field phase: the names of the required fields that are
\* missing (the values the model supplies are well-formed)
missingParams(required, params) == required \ DOMAIN params

validateNetworkOwner(validated) ==
    IF ~Has(validated, "network") THEN {}
    ELSE IF Has(validated, "owner_uuid")
            /\ (~Has(validated, "check_owner") \/ validated.check_owner)
            /\ ~isOwner(validated.network, validated.owner_uuid)
    THEN {"owner_uuid"}
    ELSE {}

\* a check that lets free and unassign pass together
validateFreeUnassignOff(validated) == {}

validateFreeUnassign(validated) ==
    IF Has(validated, "free") /\ validated.free
       /\ Has(validated, "unassign") /\ validated.unassign
    THEN {"unassign"}
    ELSE {}

\* CREATE_SCHEMA.after[0]
requireOwningInfo(validated) ==
    IF Has(validated, "belongs_to_uuid") \/ Has(validated, "belongs_to_type")
    THEN OWNING_FIELDS \ DOMAIN validated
    ELSE {}

CREATE_required == {"ip", "network", "network_uuid"}
CREATE_optional ==
    {"check_owner", "belongs_to_uuid", "belongs_to_type", "owner_uuid",
     "reserved"}

\* validate.params(CREATE_SCHEMA, null, params, ...): the fields in error
\* (the after checks run one after the other, once the fields passed)
createIPErrors(params) ==
    LET validated == Only(params, CREATE_required \cup CREATE_optional)
        missing == missingParams(CREATE_required, params)
    IN IF missing # {} THEN missing
       ELSE IF requireOwningInfo(validated) # {}
            THEN requireOwningInfo(validated)
            ELSE validateNetworkOwner(validated)

createIPValidated(params) ==
    Only(params, CREATE_required \cup CREATE_optional)

\* a createIP whose putObject carries no etag
createIPEtagMissing == NOETAG

createIPEtag == NULL

UPDATE_optional ==
    {"belongs_to_type", "belongs_to_uuid", "check_owner", "owner_uuid",
     "reserved", "unassign", "free"}

\* the fields updateIP moves from optional to required
updateIPRequired(params) ==
    {"network"} \cup
    (IF ~Has(params, "oldIP") THEN {}
     ELSE (IF Has(params, "belongs_to_uuid")
              /\ ~Has(params.oldIP, "belongs_to_type")
           THEN {"belongs_to_type"} ELSE {})
          \cup
          (IF Has(params, "belongs_to_type")
              /\ ~Has(params.oldIP, "belongs_to_uuid")
           THEN {"belongs_to_uuid"} ELSE {})
          \cup
          (IF ~Has(params.oldIP, "owner_uuid")
              /\ (Has(params, "belongs_to_type")
                  \/ Has(params, "belongs_to_uuid"))
           THEN {"owner_uuid"} ELSE {}))

updateIPValidated(params) ==
    Only(params, {"network"} \cup UPDATE_optional)

updateIPErrors(params) ==
    LET missing == missingParams(updateIPRequired(params), params)
        validated == updateIPValidated(params)
    IN IF missing # {} THEN missing
       ELSE IF validateNetworkOwner(validated) # {}
            THEN validateNetworkOwner(validated)
            ELSE validateFreeUnassign(validated)

\* updateOpts.val and updateOpts.remove
updateIPVal(validated) ==
    IF Has(validated, "unassign") /\ validated.unassign
    THEN [belongs_to_type |-> TRUE, belongs_to_uuid |-> TRUE]
    ELSE Delete(validated, {"network"})

updateIPRemove(validated) == Has(validated, "unassign") /\ validated.unassign

\* updateObj: the value it writes back, from the row it read
updateObjValue(value, val, remove) ==
    IF remove THEN Delete(value, DOMAIN val) ELSE Merge(value, val)

\* updateObj: the etag option of its putObject (it passes no options)
updateObjEtag(etag) == NOETAG

\* a deleteIP whose putObject carries no etag
deleteIPEtagMissing(existingIP) == NOETAG

\* deleteIP: the etag option of its putObject
deleteIPEtag(existingIP) == existingIP.etag

\* a deleteIP that writes the numeric form on every network
deleteIPValNumeric(net, addr) == [reserved |-> FALSE, ip |-> addr]

\* a deleteIP that leaves the address reserved
deleteIPValReserved(net, addr) ==
    IF net.ip_use_strings
    THEN [reserved |-> TRUE, ipaddr |-> AddrToString(addr)]
    ELSE [reserved |-> TRUE, ip |-> addr]

\* deleteIP: the cleared record
deleteIPVal(net, addr) ==
    IF net.ip_use_strings
    THEN [reserved |-> FALSE, ipaddr |-> AddrToString(addr)]
    ELSE [reserved |-> FALSE, ip |-> addr]

\* batchCreateIPs: the batch it gives to moray.batch
batchCreateData(network_uuid, batch) ==
    [i \in 1 .. Len(batch) |->
        LET ip == IP(batch[i]) IN
        [bucket |-> bucketName(network_uuid),
         key |-> IPkey(ip), operation |-> "put", value |-> IPraw(ip)]]

-----------------------------------------------------------------------------
(* Specification SpecIP: two request handlers working on one address of a  *)
(* network's IP bucket (rows of different addresses do not interact).  A   *)
(* handler reads the address with getIP and then updates, deletes or       *)
(* unassigns it, or creates the row directly.  A handler that succeeded    *)
(* goes on with the IP object it was given; one that failed starts again.  *)

Handlers == {1, 2}
IPAddrs == {FirstAddr}

\* request bodies
IPBodies(c) ==
    {[belongs_to_type |-> "zone", belongs_to_uuid |-> VM(c),
      owner_uuid |-> Owner(1)],
     [belongs_to_uuid |-> VM(c)],
     [reserved |-> TRUE],
     [unassign |-> TRUE],
     [free |-> TRUE, unassign |-> TRUE]}

\* the rows a new network gets through batchCreateIPs
PlaceholderParams(a) ==
    [ip |-> a, network |-> network, network_uuid |-> network.uuid,
     reserved |-> TRUE, belongs_to_type |-> "other",
     belongs_to_uuid |-> UFDS_ADMIN_UUID, owner_uuid |-> UFDS_ADMIN_UUID]

\* the addresses the handlers of SpecCreate work on
CreateAddrs == {FirstAddr, FirstAddr + 1}

AddrSeqs ==
    {<<a>> : a \in CreateAddrs} \cup
    {<<ab[1], ab[2]>> : ab \in {x \in CreateAddrs \X CreateAddrs :
                                    x[1] < x[2]}}

InitIP ==
    /\ \E us \in BOOLEAN : network = Network(us, {Owner(1)})
    /\ moray = StartStore(network, [a \in Addrs |-> "absent"])
    /\ nextEtag = 0
    /\ callers = [c \in Handlers |-> IdleCaller]
    /\ hist = NoLog
    /\ opts = NoOpts /\ sent = <<>> /\ cbres = NoCbres
    /\ txns = NoTxns /\ locks = NoLocks

Failed(c, err) ==
    callers' = [callers EXCEPT ![c] = Merge(IdleCaller, [err |-> err])]

\* the callback gets errors.invalidParam(field, ...) for the fields in error
FailedValidation(c, fields) ==
    callers' = [callers EXCEPT ![c] =
                    Merge(IdleCaller, [err |-> Err_Validation,
                                       ret |-> [fields |-> fields]])]

Returned(c, ip) ==
    callers' = [callers EXCEPT ![c] =
                    Merge(IdleCaller, [pc |-> "have", existingIP |-> ip])]

HandlerFree(c) == callers[c].pc \in {"idle", "have"}

\* getIP({returnObject: true})
GetIP(c, a) ==
    /\ HandlerFree(c)
    /\ Returned(c, getIPResult(network, a,
            getObject(moray, IPBucket, getIPReadKey(network, a))))
    /\ UNCHANGED <<moray, nextEtag, network, hist, opts, sent, cbres,
                   txns, locks>>

\* createIP: validation, then putObject(..., {etag: null})
CreateIP(c, a, body) ==
    /\ HandlerFree(c)
    /\ nextEtag < MaxEtag
    /\ LET params == Merge(body, [ip |-> a, network |-> network,
                                  network_uuid |-> network.uuid])
       IN IF createIPErrors(params) # {}
          THEN /\ FailedValidation(c, createIPErrors(params))
               /\ UNCHANGED <<moray, nextEtag, hist>>
          ELSE LET ip == IP(createIPValidated(params))
                   req == [bucket |-> bucketName(params.network.uuid),
                           key |-> IPkey(ip),
                           options |-> [etag |-> createIPEtag]]
                   r == putObject(moray, req.bucket, req.key, IPraw(ip),
                                  createIPEtag, nextEtag + 1)
               IN IF r.err # Err_none
                  THEN /\ Failed(c, r.err)
                       /\ UNCHANGED <<moray, nextEtag, hist>>
                  ELSE /\ moray' = r.st
                       /\ nextEtag' = nextEtag + 1
                       /\ Logged(c, "createIP", req, r.etag)
                       /\ Returned(c, Merge(ip, [etag |-> r.etag]))
    /\ UNCHANGED <<network, opts, sent, cbres, txns, locks>>

\* updateIP up to the answer of updateObj's getObj
UpdateIPGet(c, body, withOld) ==
    /\ callers[c].pc = "have"
    /\ LET old == callers[c].existingIP
           params == Merge(Merge(body,
                        [ip |-> old.params.ip, network |-> network,
                         network_uuid |-> network.uuid]),
                        IF withOld THEN [oldIP |-> IPserialize(old)]
                        ELSE EmptyObj)
           validated == updateIPValidated(params)
           got == getObject(moray, bucketName(params.network_uuid),
                    getIPKey(validated.network.ip_use_strings, old.params.ip))
       IN IF updateIPErrors(params) # {}
          THEN FailedValidation(c, updateIPErrors(params))
          ELSE IF got.err # Err_none
          THEN Failed(c, Err_ResourceNotFound)
          ELSE callers' = [callers EXCEPT ![c] = Merge(IdleCaller,
                  [pc |-> "update_put",
                   updateOpts |-> [addr |-> old.params.ip,
                                   etag |-> old.etag],
                   value |-> updateObjValue(got.rec.value,
                                updateIPVal(validated),
                                updateIPRemove(validated))])]
    /\ UNCHANGED <<moray, nextEtag, network, hist, opts, sent, cbres,
                   txns, locks>>

\* updateObj's putObject (issued with the merged value when getObj
\* answered) reaches the store; the callbacks that follow
UpdateIPPut(c) ==
    /\ callers[c].pc = "update_put"
    /\ nextEtag < MaxEtag
    /\ LET me == callers[c]
           value == me.value
           r == putObject(moray, bucketName(network.uuid),
                    getIPKey(network.ip_use_strings, me.updateOpts.addr),
                    value, updateObjEtag(me.updateOpts.etag), nextEtag + 1)
       IN IF r.err # Err_none
          THEN /\ Failed(c, r.err)
               /\ UNCHANGED <<moray, nextEtag>>
          ELSE /\ moray' = r.st
               /\ nextEtag' = nextEtag + 1
               /\ Returned(c, IP(Merge(value, [network |-> network,
                                     network_uuid |-> network.uuid])))
    /\ UNCHANGED <<network, hist, opts, sent, cbres, txns, locks>>

\* deleteIP: overwrite with the cleared record, on existingIP.etag
DeleteIP(c) ==
    /\ callers[c].pc = "have"
    /\ nextEtag < MaxEtag
    /\ LET old == callers[c].existingIP
           val == deleteIPVal(network, old.params.ip)
           req == [bucket |-> bucketName(network.uuid),
                   key |-> getIPKey(network.ip_use_strings, old.params.ip),
                   options |-> [etag |-> deleteIPEtag(old)]]
           r == putObject(moray, req.bucket, req.key, val, deleteIPEtag(old),
                          nextEtag + 1)
       IN IF r.err # Err_none
          THEN /\ Failed(c, r.err)
               /\ UNCHANGED <<moray, nextEtag, hist>>
          ELSE /\ moray' = r.st
               /\ nextEtag' = nextEtag + 1
               /\ Logged(c, "deleteIP", req, r.etag)
               /\ Returned(c, IP(Merge(val, [etag |-> r.etag, network |-> network,
                                   network_uuid |-> network.uuid])))
    /\ UNCHANGED <<network, opts, sent, cbres, txns, locks>>

\* commitBatch of one IP request (no opts.nic); the IP object keeps the
\* etag it had
CommitIPRequest(c, op, req, ip) ==
    /\ nextEtag < MaxEtag
    /\ \E b \in commitBatchSends(<<req>>) :
         LET r == morayBatch(moray, b, nextEtag) IN
         IF r.err # Err_none
         THEN /\ Failed(c, r.err)
              /\ UNCHANGED <<moray, nextEtag, hist>>
         ELSE /\ moray' = r.st
              /\ nextEtag' = nextEtag + NumPuts(b)
              /\ Logged(c, op, req, r.etags[1].etag)
              /\ Returned(c, ip)
    /\ UNCHANGED <<network, opts, sent, cbres, txns, locks>>

\* a claim: createUpdatedObject(existingIP, params).batch() committed
BatchPut(c, body) ==
    /\ callers[c].pc = "have"
    /\ LET ip == createUpdatedObject(callers[c].existingIP, body)
       IN CommitIPRequest(c,
            IF callers[c].existingIP.etag = NULL THEN "batch-create"
            ELSE "batch", IPbatch(ip), ip)

\* a release: existingIP.unassignBatch() committed
UnassignBatch(c) ==
    /\ callers[c].pc = "have"
    /\ CommitIPRequest(c, "unassignBatch",
            IPunassignBatch(callers[c].existingIP), callers[c].existingIP)

\* batchCreateIPs
BatchCreateIPs(c, as) ==
    /\ HandlerFree(c)
    /\ nextEtag + Len(as) <= MaxEtag
    /\ LET batch == [i \in 1 .. Len(as) |-> PlaceholderParams(as[i])]
           data == batchCreateData(network.uuid, batch)
           r == morayBatch(moray, data, nextEtag)
       IN IF r.err # Err_none
          THEN /\ Failed(c, r.err)
               /\ UNCHANGED <<moray, nextEtag, hist>>
          ELSE /\ moray' = r.st
               /\ nextEtag' = nextEtag + NumPuts(data)
               /\ hist' = LogOf(
                            {[caller |-> c, op |-> "batchCreateIPs",
                              bucket |-> data[i].bucket, key |-> data[i].key,
                              read |-> ReqEtag(data[i]),
                              etag |-> r.etags[i].etag] :
                                i \in 1 .. Len(data)})
               /\ callers' = [callers EXCEPT ![c] = IdleCaller]
    /\ UNCHANGED <<network, opts, sent, cbres, txns, locks>>

NextIP ==
    \/ \E c \in Handlers, a \in IPAddrs : GetIP(c, a)
    \/ \E c \in Handlers, a \in IPAddrs : \E body \in IPBodies(c) :
            CreateIP(c, a, body)
    \/ \E c \in Handlers, withOld \in BOOLEAN : \E body \in IPBodies(c) :
            UpdateIPGet(c, body, withOld)
    \/ \E c \in Handlers : UpdateIPPut(c)
    \/ \E c \in Handlers : DeleteIP(c)
    \/ \E c \in Handlers : UnassignBatch(c)

SpecIP == InitIP /\ [][NextIP]_vars

-----------------------------------------------------------------------------
(* Specification SpecCreate: two handlers that bring rows into being:      *)
(* createIP, a claim of an address read with getIP, and batchCreateIPs     *)

CreateBodies(c) ==
    {[belongs_to_type |-> "zone", belongs_to_uuid |-> VM(c),
      owner_uuid |-> Owner(1)]}

InitCreate ==
    /\ \E us \in BOOLEAN : network = Network(us, {Owner(1)})
    /\ moray = StartStore(network, [a \in Addrs |-> "absent"])
    /\ nextEtag = 0
    /\ callers = [c \in Handlers |-> IdleCaller]
    /\ hist = {}
    /\ opts = NoOpts /\ sent = <<>> /\ cbres = NoCbres
    /\ txns = NoTxns /\ locks = NoLocks

NextCreate ==
    \/ \E c \in Handlers, a \in CreateAddrs : GetIP(c, a)
    \/ \E c \in Handlers, a \in CreateAddrs : \E body \in CreateBodies(c) :
            CreateIP(c, a, body)
    \/ \E c \in Handlers : BatchPut(c, AllocParams(c))
    \/ \E c \in Handlers, as \in AddrSeqs : BatchCreateIPs(c, as)

SpecCreate == InitCreate /\ [][NextCreate]_vars

\* C3: of the creates of one address (createIP, or the batch put of a
\* record getIP made up for a missing row) at most one commits; a create
\* commits only while the address has no row, and a handler that ends with
\* an etag conflict has changed nothing in the store.
C3_AtMostOneCreate ==
    /\ [](\A h1, h2 \in hist :
            (h1.op \in CreateOps /\ h2.op \in CreateOps
             /\ h1.bucket = h2.bucket /\ h1.key = h2.key) => h1 = h2)
    /\ [][/\ \A h \in hist' \ hist :
                h.op \in CreateOps =>
                    /\ ~HasRow(moray, h.bucket, h.key)
                    /\ moray'[RowId(h.bucket, h.key)]._etag = h.etag
          /\ \A c \in Handlers :
                (callers'[c] # callers[c]
                 /\ callers'[c].err = Err_EtagConflict) => moray' = moray
         ]_vars

\* two handlers tried to create the same address; one holds the row and
\* the other was turned away
C3_Witness ==
    \E c1, c2 \in Handlers :
        /\ c1 # c2
        /\ callers[c1].err = Err_EtagConflict
        /\ callers[c2].pc = "have"
        /\ \E h \in hist : h.caller = c2 /\ h.op \in CreateOps
                /\ HasRow(moray, h.bucket, h.key)
                /\ moray[RowId(h.bucket, h.key)]._etag = h.etag
                /\ callers[c2].existingIP.etag = h.etag

\* C4 (as claimed): batchCreateIPs commits only if none of its addresses
\* has a row, so it overwrites no existing row.
C4_BatchCreateIsConditional ==
    [][\A h \in hist' \ hist :
            h.op = "batchCreateIPs" => ~HasRow(moray, h.bucket, h.key)]_vars

\* the row of the address the handlers of SpecIP work on
IPRowId == RowId(IPBucket, getIPKey(network.ip_use_strings, FirstAddr))

\* C2 (as claimed): the putObject of an updateIP whose existingIP carries
\* another etag than the stored row fails with an etag conflict and leaves
\* the row as it is.
C2_StaleUpdateFails ==
    [][\A c \in Handlers :
        (/\ callers[c].pc = "update_put"
         /\ callers'[c].pc # "update_put"
         /\ IPRowId \in DOMAIN moray
         /\ moray[IPRowId]._etag # callers[c].updateOpts.etag)
        => (moray' = moray /\ callers'[c].err = Err_EtagConflict)]_vars

\* C10 (as claimed): every stored IP row has belongs_to_type and
\* belongs_to_uuid both or neither, and owner_uuid with them.
C10_OwningFieldsTogether ==
    \A id \in DOMAIN moray :
        LET v == moray[id].value IN
        /\ Has(v, "belongs_to_type") <=> Has(v, "belongs_to_uuid")
        /\ (Has(v, "belongs_to_type") \/ Has(v, "belongs_to_uuid"))
              => Has(v, "owner_uuid")

-----------------------------------------------------------------------------
(* Specification SpecBatch: one request handler that holds a NIC object    *)
(* (opts.nic) and an IP object read with getIP, collects mutations in      *)
(* opts.batch and hands them to commitBatch once, while another writer may *)
(* change the NIC's or the address's row                                   *)

\* util_common.getEtag: the etag the store returned for (bucket, key)
getEtag(etags, bucket, key) ==
    IF \E i \in 1 .. Len(etags) :
            etags[i].bucket = bucket /\ etags[i].key = key
    THEN etags[CHOOSE i \in 1 .. Len(etags) :
            etags[i].bucket = bucket /\ etags[i].key = key].etag
    ELSE NULL

\* opts.nic.mac.toLong().toString()
NicKey(nic) == NumToStr(nic.mac)

\* the callback of moray.batch in commitBatch: what opts.nic.etag is
\* afterwards, written on every outcome
commitBatchNicEtagAlways(o, res) ==
    getEtag(res.etags, STR_napi_nics, NicKey(o.nic))

\* the callback of moray.batch in commitBatch: what opts.nic.etag is
\* afterwards
commitBatchNicEtag(o, res) ==
    IF res.err # Err_none THEN o.nic.etag
    ELSE getEtag(res.etags, STR_napi_nics, NicKey(o.nic))

\* the mutations a handler may append to opts.batch: puts of the NIC, of
\* the network, of the IP object it holds (assigned or released), of the
\* next address, and of two event-sink rows
NicPut(nic) ==
    [bucket |-> STR_napi_nics, key |-> NicKey(nic), operation |-> "put",
     value |-> [mac |-> nic.mac], options |-> [etag |-> nic.etag]]

NetworkPut ==
    [bucket |-> STR_napi_networks, key |-> network.uuid,
     operation |-> "put", value |-> [uuid |-> network.uuid]]

TopologyMutations ==
    {NicPut(opts.nic), NetworkPut,
     batchCreateData(network.uuid,
                     <<PlaceholderParams(FirstAddr + 1)>>)[1]}
    \cup (IF callers[1].pc = "have"
          THEN {IPbatch(callers[1].existingIP),
                IPunassignBatch(callers[1].existingIP)}
          ELSE {})

EventSinkMutations ==
    {[bucket |-> STR_portolan_mac_ip, key |-> NicKey(opts.nic),
      operation |-> "put", value |-> [mac |-> opts.nic.mac]],
     [bucket |-> STR_portolan_net_events, key |-> network.uuid,
      operation |-> "put", value |-> [uuid |-> network.uuid]]}

NicRowId == RowId(STR_napi_nics, NicKey(opts.nic))

InitBatch ==
    /\ \E us \in BOOLEAN : network = Network(us, {Owner(1)})
    /\ opts = [batch |-> <<>>, nic |-> [mac |-> 5, etag |-> 1]]
    /\ moray = WriteRow(StartStore(network, [a \in Addrs |-> "absent"]),
                        STR_napi_nics, NicKey(opts.nic),
                        [mac |-> opts.nic.mac], 1)
    /\ nextEtag = 1
    /\ callers = [c \in {1} |-> IdleCaller]
    /\ hist = NoLog
    /\ sent = <<>> /\ cbres = NoCbres
    /\ txns = NoTxns /\ locks = NoLocks

\* the handler reads the address before it starts a batch
BatchGetIP ==
    /\ opts.batch = <<>>
    /\ ~cbres.called
    /\ callers[1].pc = "idle"
    /\ GetIP(1, FirstAddr)

AppendMutation(m) ==
    /\ ~cbres.called
    /\ Len(opts.batch) < MaxBatchLen
    /\ opts' = [opts EXCEPT !.batch = Append(opts.batch, m)]
    /\ UNCHANGED <<moray, nextEtag, network, callers, hist, sent, cbres,
                   txns, locks>>

\* another writer puts the NIC's row or the address's row after the
\* handler has read it; appending to opts.batch reads no row, so the write
\* is taken before the first mutation is appended
OtherWriter ==
    /\ ~cbres.called
    /\ opts.batch = <<>>
    /\ nextEtag < MaxEtag
    /\ \E w \in {[bucket |-> STR_napi_nics, key |-> NicKey(opts.nic),
                  value |-> [mac |-> opts.nic.mac]],
                 [bucket |-> IPBucket,
                  key |-> getIPKey(network.ip_use_strings, FirstAddr),
                  value |-> StartValue(network, FirstAddr, "other")]} :
            moray' = WriteRow(moray, w.bucket, w.key, w.value, nextEtag + 1)
    /\ nextEtag' = nextEtag + 1
    /\ UNCHANGED <<network, callers, hist, opts, sent, cbres, txns, locks>>

\* commitBatch(opts, callback)
commitBatch ==
    /\ ~cbres.called
    /\ opts.batch # <<>>
    /\ nextEtag < MaxEtag
    /\ \E batch \in commitBatchSends(opts.batch) :
        LET res == morayBatch(moray, batch, nextEtag) IN
        /\ sent' = batch
        /\ moray' = res.st
        /\ nextEtag' = IF res.err # Err_none THEN nextEtag
                       ELSE nextEtag + NumPuts(batch)
        /\ opts' = [opts EXCEPT !.nic.etag = commitBatchNicEtag(opts, res)]
        /\ cbres' = [called |-> TRUE, err |-> res.err]
    /\ UNCHANGED <<network, callers, hist, txns, locks>>

NextBatch ==
    \/ BatchGetIP
    \/ \E m \in TopologyMutations : AppendMutation(m)
    \/ \E m \in EventSinkMutations : AppendMutation(m)
    \/ OtherWriter
    \/ commitBatch

SpecBatch == InitBatch /\ [][NextBatch]_vars

\* what the store answers to the batch that a commitBatch step sends
StoreAnswer == morayBatch(moray, sent', nextEtag)

\* C5: when the store turns down the batch that commitBatch sends, no row
\* of any bucket changes, the callback gets the store's error, and
\* opts.nic.etag is what it was.
C5_AllOrNothing ==
    [][(~cbres.called /\ cbres'.called /\ StoreAnswer.err # Err_none)
        => /\ moray' = moray
           /\ cbres'.err = StoreAnswer.err
           /\ opts'.nic.etag = opts.nic.etag]_vars

\* a batch of several mutations was turned down for a version conflict
\* although its first mutation, sent alone, would have been applied
C5_Witness ==
    /\ cbres.called
    /\ cbres.err = Err_EtagConflict
    /\ Len(sent) > 1
    /\ morayBatch(moray, <<sent[1]>>, nextEtag).err = Err_none
    /\ \E i \in 1 .. Len(sent) : sent[i] = NicPut(opts.nic)

IsEventSink(r) == Contains(r.bucket, STR_portolan)

TopologyOf(batch) == SelectSeq(batch, LAMBDA r : ~IsEventSink(r))
EventSinkOf(batch) == SelectSeq(batch, LAMBDA r : IsEventSink(r))

DistinctRows(batch) ==
    \A i, j \in 1 .. Len(batch) :
        (batch[i].bucket = batch[j].bucket /\ batch[i].key = batch[j].key)
            => i = j

Rearranged(batch, p) == [i \in 1 .. Len(batch) |-> batch[p[i]]]

\* C6: if the topology mutations of opts.batch address pairwise distinct
\* rows, the batch sent starts with exactly these mutations, each once, by
\* bucket name descending and key ascending, and every order in which the
\* caller could have appended them gives the same beginning.
C6_TopologySorted ==
    (cbres.called /\ DistinctRows(TopologyOf(opts.batch))) =>
        LET nb == TopologyOf(opts.batch)
            n == Len(nb)
            first == SubSeq(sent, 1, n)
        IN /\ Len(sent) >= n
           /\ \A i \in 1 .. n :
                Cardinality({j \in 1 .. n : first[j] = nb[i]}) = 1
           /\ \A i, j \in 1 .. n :
                i < j =>
                    \/ StrLess(first[j].bucket, first[i].bucket)
                    \/ /\ first[i].bucket = first[j].bucket
                       /\ StrLess(first[i].key, first[j].key)
           /\ \A p \in IndexPerms(Len(opts.batch)) :
                \A s \in commitBatchSends(Rearranged(opts.batch, p)) :
                    SubSeq(s, 1, n) = first

\* a commit of topology mutations of two buckets, two of them in one
\* bucket, that the caller had appended in another order than they were
\* sent
C6_Witness ==
    /\ cbres.called
    /\ DistinctRows(TopologyOf(opts.batch))
    /\ Len(TopologyOf(opts.batch)) = 3
    /\ \E i, j \in 1 .. 3 :
            /\ i # j
            /\ sent[i].bucket = sent[j].bucket
    /\ \E i, j \in 1 .. 3 : sent[i].bucket # sent[j].bucket
    /\ SubSeq(sent, 1, 3) # TopologyOf(opts.batch)

\* C7: in the batch sent every event-sink mutation comes after every
\* topology mutation, the event-sink mutations are in the order of
\* opts.batch, and the batch sent is opts.batch rearranged.
C7_EventSinkLast ==
    cbres.called =>
        /\ \A i, j \in 1 .. Len(sent) :
                (IsEventSink(sent[i]) /\ ~IsEventSink(sent[j])) => j < i
        /\ EventSinkOf(sent) = EventSinkOf(opts.batch)
        /\ Len(sent) = Len(opts.batch)
        /\ \E p \in IndexPerms(Len(sent)) :
                sent = Rearranged(opts.batch, p)

\* a commit of two different event-sink mutations, appended in ascending
\* bucket order and before a topology mutation
C7_Witness ==
    /\ cbres.called
    /\ Len(opts.batch) = 3
    /\ IsEventSink(opts.batch[1])
    /\ IsEventSink(opts.batch[2])
    /\ ~IsEventSink(opts.batch[3])
    /\ StrLess(opts.batch[1].bucket, opts.batch[2].bucket)
    /\ sent = <<opts.batch[3], opts.batch[1], opts.batch[2]>>

\* C9 (as claimed): after a commitBatch that succeeded, the NIC object and
\* the IP object whose puts were in the batch carry the etags of their
\* rows.
C9_InstancesHoldNewEtag ==
    (cbres.called /\ cbres.err = Err_none) =>
        /\ (\E i \in 1 .. Len(sent) :
                RowId(sent[i].bucket, sent[i].key) = NicRowId)
            => opts.nic.etag = moray[NicRowId]._etag
        /\ (callers[1].pc = "have"
            /\ \E i \in 1 .. Len(sent) :
                    sent[i] \in {IPbatch(callers[1].existingIP),
                                 IPunassignBatch(callers[1].existingIP)})
            => callers[1].existingIP.etag =
                 moray[RowId(IPBucket, IPkey(callers[1].existingIP))]._etag

-----------------------------------------------------------------------------
(* Specification SpecLock: two batches that commitBatch has sent run in the*)
(* store at the same time.  The store takes the row lock of one request    *)
(* after the other, in the order of the batch, waits while another batch   *)
(* holds the lock, and gives the locks back when the batch is through.     *)

\* two batches in the store at a time
Txns == {1, 2}

IdleTxn == [pc |-> "idle", sent |-> <<>>, pos |-> 0]

\* the mutations of the batches: a NIC, its network, its address, and two
\* event-sink rows
LockMutations ==
    {NicPut([mac |-> 5, etag |-> 1]), NetworkPut,
     batchCreateData(network.uuid, <<PlaceholderParams(FirstAddr)>>)[1],
     [bucket |-> STR_portolan_mac_ip, key |-> NumToStr(5),
      operation |-> "put", value |-> [mac |-> 5]],
     [bucket |-> STR_portolan_net_events, key |-> network.uuid,
      operation |-> "put", value |-> [uuid |-> network.uuid]]}

\* the batches a caller may build: mutations of different rows in any order
LockBatches ==
    UNION {{b \in [1 .. n -> LockMutations] : DistinctRows(b)} :
                n \in 1 .. MaxBatchLen}

InitLock ==
    /\ network = Network(TRUE, {Owner(1)})
    /\ moray = StartStore(network, [a \in Addrs |-> "absent"])
    /\ nextEtag = 0
    /\ callers = [c \in {} |-> IdleCaller]
    /\ hist = NoLog
    /\ opts = NoOpts /\ sent = <<>> /\ cbres = NoCbres
    /\ txns = [t \in Txns |-> IdleTxn]
    /\ locks = NoLocks

TxnRow(t, i) == RowId(txns[t].sent[i].bucket, txns[t].sent[i].key)

\* commitBatch sends a caller's batch
BeginBatch(t, b) ==
    /\ txns[t].pc = "idle"
    /\ \E batch \in commitBatchSends(b) :
            txns' = [txns EXCEPT ![t] =
                        [pc |-> "running", sent |-> batch, pos |-> 0]]
    /\ UNCHANGED <<moray, nextEtag, network, callers, hist, opts, sent,
                   cbres, locks>>

\* the store takes the row lock of the batch's next request
LockRow(t) ==
    /\ txns[t].pc = "running"
    /\ txns[t].pos < Len(txns[t].sent)
    /\ LET row == TxnRow(t, txns[t].pos + 1) IN
        /\ row \notin DOMAIN locks
        /\ locks' = [id \in DOMAIN locks \cup {row} |->
                        IF id = row THEN t ELSE locks[id]]
    /\ txns' = [txns EXCEPT ![t].pos = @ + 1]
    /\ UNCHANGED <<moray, nextEtag, network, callers, hist, opts, sent,
                   cbres>>

\* the batch is through: its locks are given back
EndBatch(t) ==
    /\ txns[t].pc = "running"
    /\ txns[t].pos = Len(txns[t].sent)
    /\ locks' = [id \in {r \in DOMAIN locks : locks[r] # t} |-> locks[id]]
    /\ txns' = [txns EXCEPT ![t] = IdleTxn]
    /\ UNCHANGED <<moray, nextEtag, network, callers, hist, opts, sent,
                   cbres>>

NextLock ==
    \/ \E t \in Txns, b \in LockBatches : BeginBatch(t, b)
    \/ \E t \in Txns : LockRow(t)
    \/ \E t \in Txns : EndBatch(t)

SpecLock == InitLock /\ [][NextLock]_vars

\* batch t waits for a row lock that another batch holds
Waiting(t) ==
    /\ txns[t].pc = "running"
    /\ txns[t].pos < Len(txns[t].sent)
    /\ TxnRow(t, txns[t].pos + 1) \in DOMAIN locks

WaitsFor(t) == txns[t].sent[txns[t].pos + 1]

MutualWait(t1, t2) ==
    /\ Waiting(t1) /\ Waiting(t2)
    /\ locks[TxnRow(t1, txns[t1].pos + 1)] = t2
    /\ locks[TxnRow(t2, txns[t2].pos + 1)] = t1

\* two batches in the store take the locks of the rows they share, of the
\* kind given (event sink or not), in the same relative order
SameLockOrder(t1, t2, eventSink) ==
    \A i1, j1 \in 1 .. Len(txns[t1].sent) :
        \A i2, j2 \in 1 .. Len(txns[t2].sent) :
            (/\ TxnRow(t1, i1) = TxnRow(t2, i2)
             /\ TxnRow(t1, j1) = TxnRow(t2, j2)
             /\ IsEventSink(txns[t1].sent[i1]) \in eventSink
             /\ IsEventSink(txns[t1].sent[j1]) \in eventSink
             /\ i1 < j1) => i2 < j2

\* C8 (as claimed): any two batches in the store take the locks of their
\* common rows in the same relative order, and never does each of two
\* batches hold a row lock the other waits for.
C8_NoLockOrderDeadlock ==
    \A t1, t2 \in Txns :
        t1 # t2 => /\ SameLockOrder(t1, t2, BOOLEAN)
                   /\ ~MutualWait(t1, t2)

\* C8 (amended): any two batches in the store take the locks of their
\* common topology rows in the same relative order, and before the lock of
\* any event-sink row; if each of two batches holds a row lock the other
\* waits for, both wait for event-sink rows.
C8_TopologyLockOrder ==
    \A t1, t2 \in Txns :
        t1 # t2 =>
            /\ SameLockOrder(t1, t2, {FALSE})
            /\ \A i, j \in 1 .. Len(txns[t1].sent) :
                    (IsEventSink(txns[t1].sent[i])
                     /\ ~IsEventSink(txns[t1].sent[j])) => j < i
            /\ MutualWait(t1, t2) =>
                    (IsEventSink(WaitsFor(t1)) /\ IsEventSink(WaitsFor(t2)))

\* two batches that share all three topology rows: one holds the lock of
\* the first and goes on, the other waits for it and holds nothing
C8_Witness ==
    \E t1, t2 \in Txns :
        /\ t1 # t2
        /\ Len(txns[t1].sent) = 3 /\ Len(txns[t2].sent) = 3
        /\ \A i \in 1 .. 3 : ~IsEventSink(txns[t1].sent[i])
        /\ txns[t1].sent = txns[t2].sent
        /\ txns[t1].pos = 2
        /\ txns[t2].pos = 0
        /\ Waiting(t2) /\ ~Waiting(t1)

-----------------------------------------------------------------------------
(* Specification SpecRecord: the methods of one IP object.  The object is  *)
(* built by new IP(params) from some parameters; then one of serialize(),  *)
(* unassignBatch(), provisionable() or a rebuild from raw() is applied and  *)
(* its result kept in ret.                                                  *)

\* all the ways to give, or not to give, the properties named by keys
\* with the values choices[k]
RECURSIVE Choices(_, _)
Choices(keys, choices) ==
    IF keys = {} THEN {EmptyObj}
    ELSE LET k == CHOOSE x \in keys : TRUE
             rest == Choices(keys \ {k}, choices)
         IN rest \cup {Merge(o, [j \in {k} |-> v]) :
                            o \in rest, v \in choices[k]}

RecordNetworks ==
    {Merge(Network(us, {Owner(1)}), [fabric |-> f]) :
        us \in BOOLEAN, f \in BOOLEAN}

\* the parameters an IP object is built from
RecordParams(net) ==
    {Merge(Merge(o, r), [ip |-> a, network |-> net,
                         network_uuid |-> net.uuid]) :
        a \in Addrs,
        r \in {EmptyObj, [reserved |-> TRUE], [reserved |-> FALSE],
               [reserved_text |-> "true"], [reserved_text |-> "false"]},
        o \in Choices({"belongs_to_type", "belongs_to_uuid", "owner_uuid",
                       "etag", "use_strings"},
                [belongs_to_type |-> {"zone", "other"},
                 belongs_to_uuid |-> {VM(1), UFDS_ADMIN_UUID},
                 owner_uuid |-> {Owner(1)},
                 etag |-> {NULL, 1},
                 use_strings |-> {TRUE}])}

InitRecord ==
    /\ network \in RecordNetworks
    /\ \E params \in RecordParams(network) :
            callers = [c \in {1} |->
                Merge(IdleCaller, [pc |-> "have", existingIP |-> IP(params)])]
    /\ moray = StartStore(network, [a \in Addrs |-> "absent"])
    /\ nextEtag = 0
    /\ hist = NoLog
    /\ opts = NoOpts /\ sent = <<>> /\ cbres = NoCbres
    /\ txns = NoTxns /\ locks = NoLocks

\* the method called on the object, and what it gave
Applied(method, result) ==
    /\ callers[1].pc = "have"
    /\ callers' = [callers EXCEPT ![1].pc = method, ![1].ret = result]
    /\ UNCHANGED <<moray, nextEtag, network, hist, opts, sent, cbres,
                   txns, locks>>

RecordSerialize ==
    Applied("serialize", IPserialize(callers[1].existingIP))

RecordUnassignBatch ==
    Applied("unassignBatch", IPunassignBatch(callers[1].existingIP))

RecordProvisionable ==
    Applied("provisionable",
            [result |-> IPprovisionable(callers[1].existingIP)])

\* new IP(...) of the stored value, as getIP makes it, serialized
RecordRebuild ==
    Applied("rebuild",
        IPserialize(IP(Merge(IPraw(callers[1].existingIP),
            [network |-> callers[1].existingIP.params.network,
             network_uuid |-> callers[1].existingIP.params.network_uuid]))))

NextRecord ==
    \/ RecordSerialize
    \/ RecordUnassignBatch
    \/ RecordProvisionable
    \/ RecordRebuild

SpecRecord == InitRecord /\ [][NextRecord]_vars

\* the record's fields, as the object of SpecRecord holds them
RecordHas(k) == Has(callers[1].existingIP.params, k)
RecordReserved == RecordHas("reserved") /\ callers[1].existingIP.params.reserved

\* C11: serialize() reports free = true exactly when the record has none
\* of belongs_to_type, belongs_to_uuid and owner_uuid and is not reserved.
C11_FreeIffNothingSet ==
    callers[1].pc = "serialize" =>
        (callers[1].ret.free = TRUE <=>
            (/\ ~RecordHas("belongs_to_type")
             /\ ~RecordHas("belongs_to_uuid")
             /\ ~RecordHas("owner_uuid")
             /\ ~RecordReserved))

\* an unreserved record whose only field is owner_uuid, serialized
C11_Witness ==
    /\ callers[1].pc = "serialize"
    /\ RecordHas("owner_uuid")
    /\ ~RecordHas("belongs_to_type") /\ ~RecordHas("belongs_to_uuid")
    /\ ~RecordReserved
    /\ callers[1].ret.free = FALSE

\* C12: unassignBatch() gives a put with the bucket, key and etag of
\* batch() whose value has neither belongs_to_type nor belongs_to_uuid;
\* the value has no owner_uuid if the IP is not reserved, and keeps the
\* IP's owner_uuid, with reserved = true, if it is reserved.
C12_UnassignBatchClears ==
    callers[1].pc = "unassignBatch" =>
        LET x == callers[1].existingIP
            b == callers[1].ret
        IN /\ b.operation = "put"
           /\ b.bucket = IPbatch(x).bucket
           /\ b.key = IPbatch(x).key
           /\ b.options = IPbatch(x).options
           /\ b.options.etag = x.etag
           /\ ~Has(b.value, "belongs_to_type")
           /\ ~Has(b.value, "belongs_to_uuid")
           /\ ~RecordReserved => ~Has(b.value, "owner_uuid")
           /\ RecordReserved =>
                /\ b.value.reserved = TRUE
                /\ RecordHas("owner_uuid") =>
                    (/\ Has(b.value, "owner_uuid")
                     /\ b.value.owner_uuid = x.params.owner_uuid)

\* the unassignBatch() of a reserved and assigned IP that has an owner
C12_Witness ==
    /\ callers[1].pc = "unassignBatch"
    /\ RecordReserved
    /\ RecordHas("owner_uuid")
    /\ RecordHas("belongs_to_type") /\ RecordHas("belongs_to_uuid")
    /\ callers[1].existingIP.etag = 1
    /\ Has(callers[1].ret.value, "owner_uuid")
    /\ ~Has(callers[1].ret.value, "belongs_to_uuid")

C19_RawRoundTrip ==
    callers[1].pc = "rebuild" =>
        callers[1].ret = IPserialize(callers[1].existingIP)

\* the round trip of a reserved, assigned IP on a fabric network whose
\* bucket keeps addresses as strings
C19_Witness ==
    /\ callers[1].pc = "rebuild"
    /\ callers[1].existingIP.use_strings
    /\ network.fabric
    /\ RecordReserved
    /\ RecordHas("owner_uuid")
    /\ RecordHas("belongs_to_type") /\ RecordHas("belongs_to_uuid")
    /\ callers[1].ret.free = FALSE
    /\ callers[1].ret.ip = AddrToString(FirstAddr)

-----------------------------------------------------------------------------
(* Specification SpecRequest: one handler serving IP requests one after    *)
(* the other on one address.  The request being served is kept in          *)
(* opts.params, so that a step of a handler can be told by its request.    *)
(* An update or a delete is served with the IP object the handler got      *)
(* from its last successful operation (opts.existingIP).                   *)

Server == 1

Requests ==
    {[op |-> "getIP", ip |-> a, returnObject |-> b] :
        a \in IPAddrs, b \in BOOLEAN}
    \cup {[op |-> "createIP", ip |-> a, body |-> body] :
            a \in IPAddrs, body \in IPBodies(Server)}
    \cup {[op |-> "updateIP", body |-> body, withOld |-> w] :
            body \in IPBodies(Server), w \in BOOLEAN}
    \cup {[op |-> "deleteIP"]}

InitRequest ==
    /\ \E us \in BOOLEAN : network = Network(us, {Owner(1)})
    /\ moray = StartStore(network, [a \in Addrs |-> "absent"])
    /\ nextEtag = 0
    /\ callers = [c \in {Server} |-> IdleCaller]
    /\ hist = {}
    /\ opts = [batch |-> <<>>, params |-> [op |-> "none"]]
    /\ sent = <<>> /\ cbres = NoCbres
    /\ txns = NoTxns /\ locks = NoLocks

\* a request arrives (opts.params)
Request(r) ==
    /\ HandlerFree(Server)
    /\ r.op \in {"updateIP", "deleteIP"} => callers[Server].pc = "have"
    /\ opts' = [opts EXCEPT !.params = r]
    /\ UNCHANGED <<moray, nextEtag, network, callers, hist, sent, cbres,
                   txns, locks>>

\* getIP, with or without opts.returnObject
ServeGetIP ==
    /\ opts.params.op = "getIP"
    /\ HandlerFree(Server)
    /\ LET cb == getIPCallback(network, opts.params.ip,
                    getObject(moray, IPBucket,
                              getIPReadKey(network, opts.params.ip)),
                    opts.params.returnObject)
       IN IF cb.err # Err_none THEN Failed(Server, cb.err)
          ELSE Returned(Server, cb.ip)
    /\ UNCHANGED <<moray, nextEtag, network, hist, opts, sent, cbres,
                   txns, locks>>

ServeCreateIP ==
    /\ opts.params.op = "createIP"
    /\ CreateIP(Server, opts.params.ip, opts.params.body)

ServeUpdateIPGet ==
    /\ opts.params.op = "updateIP"
    /\ UpdateIPGet(Server, opts.params.body, opts.params.withOld)

ServeUpdateIPPut ==
    /\ opts.params.op = "updateIP"
    /\ UpdateIPPut(Server)

ServeDeleteIP ==
    /\ opts.params.op = "deleteIP"
    /\ DeleteIP(Server)

NextRequest ==
    \/ \E r \in Requests : Request(r)
    \/ ServeGetIP
    \/ ServeCreateIP
    \/ ServeUpdateIPGet
    \/ ServeUpdateIPPut
    \/ ServeDeleteIP

SpecRequest == InitRequest /\ [][NextRequest]_vars

\* the handler answered its request in this step
Answered == callers'[Server] # callers[Server]

\* the record the API shows for a free address
FreeRecord(a) ==
    [ip |-> AddrToString(a), network_uuid |-> network.uuid,
     reserved |-> FALSE, free |-> TRUE]

\* the request being served is an unassign
IsUnassign ==
    /\ opts.params.op = "updateIP"
    /\ updateIPRemove(opts.params.body)

\* the stored row is an assigned one
RowAssigned(st) ==
    /\ IPRowId \in DOMAIN st
    /\ Has(st[IPRowId].value, "belongs_to_type")
    /\ Has(st[IPRowId].value, "belongs_to_uuid")

\* C13 (as claimed): when updateIP with unassign=true has written an
\* assigned row back, the row has lost belongs_to_type and belongs_to_uuid;
\* if its reserved flag is false it has lost owner_uuid too and the IP
\* returned serializes free:true; if reserved is true, owner_uuid and
\* reserved=true are kept and free is false.
C13_UnassignClearsOwner ==
    [][(/\ IsUnassign
        /\ callers[Server].pc = "update_put"
        /\ callers'[Server].pc = "have"
        /\ RowAssigned(moray))
       => LET old == moray[IPRowId].value
              new == moray'[IPRowId].value
              ser == IPserialize(callers'[Server].existingIP)
          IN /\ ~Has(new, "belongs_to_type")
             /\ ~Has(new, "belongs_to_uuid")
             /\ IF old.reserved
                THEN /\ new.reserved
                     /\ Only(new, {"owner_uuid"}) = Only(old, {"owner_uuid"})
                     /\ ~ser.free
                ELSE /\ ~Has(new, "owner_uuid")
                     /\ ser.free]_vars

\* the request being served is an update with free and unassign both true
IsFreeUnassign ==
    /\ opts.params.op = "updateIP"
    /\ Has(opts.params.body, "free") /\ opts.params.body.free
    /\ Has(opts.params.body, "unassign") /\ opts.params.body.unassign

IsDelete == opts.params.op = "deleteIP"

\* what a getIP with returnObject would give in store st
Shown(st) ==
    IPserialize(getIPResult(network, FirstAddr,
        getObject(st, IPBucket, getIPReadKey(network, FirstAddr))))

\* C15: deleteIP writes if and only if existingIP.etag passes the etag test
\* of the address's row (null: no row yet); the row it leaves holds only
\* the address and reserved=false, and the IP it returns carries the etag
\* of that row; a failed deleteIP leaves the store alone; and no step of
\* any IP operation takes a row away.
C15_DeleteOverwrites ==
    [][/\ DOMAIN moray \subseteq DOMAIN moray'
       /\ (IsDelete /\ Answered)
          => IF EtagOk(moray, IPBucket, getIPReadKey(network, FirstAddr),
                       callers[Server].existingIP.etag)
             THEN /\ callers'[Server].pc = "have"
                  /\ IPRowId \in DOMAIN moray'
                  /\ LET v == moray'[IPRowId].value IN
                     /\ DOMAIN v \in {{"reserved", "ip"}, {"reserved", "ipaddr"}}
                     /\ v.reserved = FALSE
                     /\ IF network.ip_use_strings
                        THEN v.ipaddr = AddrToString(FirstAddr)
                        ELSE v.ip = FirstAddr
                  /\ callers'[Server].existingIP.etag = moray'[IPRowId]._etag
                  /\ moray'[IPRowId]._etag
                        \notin {moray[id]._etag : id \in DOMAIN moray}
             ELSE /\ callers'[Server].err = Err_EtagConflict
                  /\ moray' = moray]_vars

\* a deleteIP has overwritten the row of an assigned address that a
\* createIP made
C15_Witness ==
    /\ IsDelete
    /\ callers[Server].pc = "have"
    /\ \E h \in hist : h.op = "createIP"
    /\ \E h \in hist : h.op = "deleteIP" /\ h.read # NULL
    /\ IPRowId \in DOMAIN moray
    /\ ~Has(moray[IPRowId].value, "belongs_to_uuid")

C17_GetOfMissingRow ==
    [][(/\ opts.params.op = "getIP"
        /\ Answered
        /\ ~HasRow(moray, IPBucket, getIPReadKey(network, opts.params.ip)))
       => /\ moray' = moray
          /\ IF opts.params.returnObject
             THEN LET ip == callers'[Server].existingIP IN
                  /\ callers'[Server].pc = "have"
                  /\ ip.etag = NULL
                  /\ ip.params.reserved = FALSE
                  /\ DOMAIN ip.params \cap OPTIONAL_PARAMS = {}
                  /\ IPserialize(ip) = FreeRecord(opts.params.ip)
             ELSE /\ callers'[Server].pc = "idle"
                  /\ callers'[Server].err = Err_ResourceNotFound]_vars

\* a getIP without returnObject was answered ResourceNotFound and the
\* address still has no row
C17_Witness ==
    /\ opts.params.op = "getIP"
    /\ ~opts.params.returnObject
    /\ callers[Server].err = Err_ResourceNotFound
    /\ ~HasRow(moray, IPBucket, getIPReadKey(network, opts.params.ip))

-----------------------------------------------------------------------------
(* lib/models/network-pool.js *)

STR_napi_network_pools ==
    <<110, 97, 112, 105, 95, 110, 101, 116, 119, 111, 114, 107, 95, 112,
      111, 111, 108, 115>>
MAX_NETS == 64

\* the empty string: an owner_uuid given to remove the owner
NoOwnerUUID == <<>>

RECURSIVE SetToArray(_)
\* an array of the elements of a set, in some order
SetToArray(set) ==
    IF set = {} THEN <<>>
    ELSE LET x == CHOOSE y \in set : TRUE
         IN <<x>> \o SetToArray(set \ {x})

\* the elements of an array
Elems(arr) == {arr[i] : i \in 1 .. Len(arr)}

\* Array.prototype.sort() of an array of strings
SortStrings(arr) ==
    CHOOSE s \in {[i \in 1 .. Len(arr) |-> arr[p[i]]] :
                    p \in IndexPerms(Len(arr))} :
        \A i \in 1 .. (Len(arr) - 1) : ~StrLess(s[i + 1], s[i])

\* a count check that lets every list pass
validateNetworksTooManyNever(uuids) == FALSE

\* validateNetworks: the test of the number of UUIDs
validateNetworksTooMany(uuids) == Len(uuids) > MAX_NETS

\* validateNetworks: the UUIDs it looks up with mod_net.get
validateNetworksLookups(uuids) ==
    IF validateNetworksTooMany(uuids) THEN {} ELSE Elems(uuids)

\* the networks that validateNetworks' lookups answer with, when the
\* lookups of failed end in an error of the store (err || !res)
networksAnswered(nets, failed) == [u \in DOMAIN nets \ failed |-> nets[u]]

\* a validateNetworks that looks at the nic tags before the missing networks
validateNetworksTagsFirst(nets, uuids, first) ==
    LET found == Elems(uuids) \cap DOMAIN nets IN
    IF \E u \in found : nets[u].nic_tag # nets[first].nic_tag
    THEN [err |-> {"networks"}, msg |-> "tags", invalid |-> {}]
    ELSE IF Elems(uuids) \ DOMAIN nets # {}
    THEN [err |-> {"networks"}, msg |-> "unknown",
          invalid |-> Elems(uuids) \ DOMAIN nets]
    ELSE [err |-> {}, networks |-> uuids,
          _networks |-> {nets[u] : u \in Elems(uuids)}]

\* validateNetworks, once every mod_net.get has answered: nets is what
\* napi_networks holds, uuids the array of UUIDs given, first the network
\* whose answer came first (it sets tag; the order of the answers shows in
\* nothing else once raw() has sorted the list).  invalid is err.invalid
\* (empty when the error has none)
validateNetworks(nets, uuids, first) ==
    LET notFound == Elems(uuids) \ DOMAIN nets
        tagsNotMatching ==
            {u \in Elems(uuids) \cap DOMAIN nets :
                nets[u].nic_tag # nets[first].nic_tag}
    IN IF validateNetworksTooMany(uuids)
       THEN [err |-> {"networks"}, msg |-> "maximum", invalid |-> {}]
       ELSE IF notFound # {}
       THEN [err |-> {"networks"}, msg |-> "unknown", invalid |-> notFound]
       ELSE IF tagsNotMatching # {}
       THEN [err |-> {"networks"}, msg |-> "tags", invalid |-> {}]
       ELSE [err |-> {}, networks |-> uuids,
             _networks |-> {nets[u] : u \in Elems(uuids)}]

\* an owner check without the exemption of the administrator's networks
validateNetworkOwnersNoAdmin(parsed) ==
    IF \/ ~Has(parsed, "owner_uuid")
       \/ parsed.owner_uuid = NoOwnerUUID
       \/ ~Has(parsed, "_networks")
       \/ parsed._networks = {}
    THEN [err |-> {}, invalid |-> {}]
    ELSE LET notMatching ==
                {net.uuid : net \in
                    {n \in parsed._networks :
                        /\ Has(n, "owner_uuid")
                        /\ n.owner_uuid # parsed.owner_uuid}}
         IN IF notMatching # {}
            THEN [err |-> {"networks"}, invalid |-> notMatching]
            ELSE [err |-> {}, invalid |-> {}]

\* an owner check that lets every network pass
validateNetworkOwnersOff(parsed) == [err |-> {}, invalid |-> {}]

validateNetworkOwners(parsed) ==
    IF \/ ~Has(parsed, "owner_uuid")
       \/ parsed.owner_uuid = NoOwnerUUID
       \/ ~Has(parsed, "_networks")
       \/ parsed._networks = {}
    THEN [err |-> {}, invalid |-> {}]
    ELSE LET notMatching ==
                {net.uuid : net \in
                    {n \in parsed._networks :
                        /\ Has(n, "owner_uuid")
                        /\ n.owner_uuid # parsed.owner_uuid
                        /\ n.owner_uuid # UFDS_ADMIN_UUID}}
         IN IF notMatching # {}
            THEN [err |-> {"networks"}, invalid |-> notMatching]
            ELSE [err |-> {}, invalid |-> {}]

\* function NetworkPool(params): nic_tag is that of the first of _networks
\* and is not stored
NetworkPool(params) == [params |-> Delete(params, {"_networks", "nic_tag"})]

poolRaw(pool) ==
    Merge([uuid |-> pool.params.uuid, name |-> pool.params.name,
           networks |-> SortStrings(pool.params.networks)],
          Only(pool.params, {"owner_uuid"}))

\* validate.params of createNetworkPool: name and networks required,
\* owner_uuid and uuid optional, then validateNetworkOwners
createPoolValidate(nets, params, first) ==
    LET missing == missingParams({"name", "networks"}, params) IN
    IF missing # {} THEN [err |-> missing]
    ELSE LET vn == validateNetworks(nets, params.networks, first) IN
         IF vn.err # {} THEN [err |-> vn.err]
         ELSE LET parsed ==
                    Merge(Only(params, {"name", "owner_uuid", "uuid"}),
                          [networks |-> vn.networks,
                           _networks |-> vn._networks])
              IN IF validateNetworkOwners(parsed).err # {}
                 THEN [err |-> validateNetworkOwners(parsed).err]
                 ELSE [err |-> {}, validated |-> parsed]

\* updateNetworkPool: params.networks is taken from the old pool when only
\* the owner is given
updatePoolParams(oldPool, params) ==
    IF /\ ~Has(params, "networks")
       /\ Has(params, "owner_uuid")
       /\ Has(oldPool.params, "networks")
    THEN Merge(params, [networks |-> oldPool.params.networks])
    ELSE params

\* validate.params of updateNetworkPool: uuid required; name, networks and
\* owner_uuid optional; the after check gives parsed the old pool's owner
\* when it has none, then validateNetworkOwners
updatePoolValidate(nets, oldPool, params, first) ==
    LET given == updatePoolParams(oldPool, params)
        vn == IF Has(given, "networks")
              THEN validateNetworks(nets, given.networks, first)
              ELSE [err |-> {}]
    IN IF ~Has(given, "uuid") THEN [err |-> {"uuid"}]
       ELSE IF vn.err # {} THEN [err |-> vn.err]
       ELSE LET fields ==
                    Merge(Only(given, {"uuid", "name", "owner_uuid"}),
                          IF Has(given, "networks")
                          THEN [networks |-> vn.networks,
                                _networks |-> vn._networks]
                          ELSE EmptyObj)
                parsed ==
                    IF ~Has(fields, "owner_uuid")
                       /\ Has(oldPool.params, "owner_uuid")
                    THEN Merge(fields,
                            [owner_uuid |-> oldPool.params.owner_uuid])
                    ELSE fields
            IN IF validateNetworkOwners(parsed).err # {}
               THEN [err |-> validateNetworkOwners(parsed).err]
               ELSE [err |-> {}, validated |-> parsed]

\* a validated value that the loop of updateNetworkPool takes for missing
\* (names are non-empty strings and a list of networks is an object)
Falsy(p, v) == p = "owner_uuid" /\ v = NoOwnerUUID

\* updateNetworkPool: the record it gives to updateObj
poolToUpdate(oldPool, validatedParams) ==
    LET kept == DOMAIN validatedParams \ {"_networks", "nic_tag"}
        removed == {p \in kept : Falsy(p, validatedParams[p])}
    IN Merge(Delete(poolRaw(oldPool), removed),
             Only(validatedParams, kept \ removed))

\* updateObj with opts.replace: the etag option of its putObject (none)
updateObjReplaceEtag == NOETAG

-----------------------------------------------------------------------------
(* Specification SpecPool: two request handlers that create and update the *)
(* pool of one UUID while the networks (napi_networks) stay as they are.   *)
(* An update reads the pool (getNetworkPool), validates, and writes the    *)
(* record back in a later step; a create validates and writes.  network    *)
(* holds the networks by UUID.                                             *)

PoolUUID == <<"pool", 1>>
PoolNet(n) == <<110>> \o NumToStr(n)
Tag(n) == <<"tag", n>>

\* napi_networks: an unowned network, one of each of two owners and one of
\* the administrator's on another nic tag
PoolNetworks ==
    [u \in {PoolNet(n) : n \in 1 .. 4} |->
        IF u = PoolNet(1) THEN [uuid |-> u, nic_tag |-> Tag(1)]
        ELSE IF u = PoolNet(2)
        THEN [uuid |-> u, nic_tag |-> Tag(1), owner_uuid |-> Owner(1)]
        ELSE IF u = PoolNet(3)
        THEN [uuid |-> u, nic_tag |-> Tag(1), owner_uuid |-> Owner(2)]
        ELSE [uuid |-> u, nic_tag |-> Tag(2),
              owner_uuid |-> UFDS_ADMIN_UUID]]

\* the lists of networks of the requests: up to two of the networks, or
\* the unknown PoolNet(5)
NetLists ==
    {<<>>, <<PoolNet(5)>>}
    \cup {<<PoolNet(n)>> : n \in 1 .. 4}
    \cup {<<PoolNet(m), PoolNet(n)>> : m \in 1 .. 2, n \in 3 .. 4}
    \cup {<<PoolNet(2), PoolNet(1)>>}

PoolOwners == {Owner(1), Owner(2)}

CreatePoolParams ==
    {Merge([uuid |-> PoolUUID, name |-> "pool", networks |-> l], o) :
        l \in NetLists,
        o \in {EmptyObj} \cup {[owner_uuid |-> w] : w \in PoolOwners}}

UpdatePoolParams ==
    {Merge(Merge([uuid |-> PoolUUID], l), o) :
        l \in {EmptyObj} \cup {[networks |-> x] : x \in NetLists},
        o \in {EmptyObj}
              \cup {[owner_uuid |-> w] :
                        w \in PoolOwners \cup {NoOwnerUUID}}}
    \cup {[uuid |-> PoolUUID, name |-> "renamed"]}

\* the networks whose answer can be the first in validateNetworks (any
\* one stands in when no network is looked up or found)
FirstOf(nets, params) ==
    IF Has(params, "networks") /\ Elems(params.networks) \cap DOMAIN nets # {}
    THEN Elems(params.networks) \cap DOMAIN nets
    ELSE {PoolNet(1)}

PoolRowId == RowId(STR_napi_network_pools, PoolUUID)

InitPool ==
    /\ network = PoolNetworks
    /\ moray = StartStore(Network(FALSE, {}), [a \in Addrs |-> "absent"])
    /\ nextEtag = 0
    /\ callers = [c \in Handlers |-> IdleCaller]
    /\ hist = NoLog
    /\ opts = NoOpts /\ sent = <<>> /\ cbres = NoCbres
    /\ txns = NoTxns /\ locks = NoLocks

\* createNetworkPool
CreateNetworkPool(c, params) ==
    /\ HandlerFree(c)
    /\ nextEtag < MaxEtag
    /\ \E first \in FirstOf(network, params) :
       LET v == createPoolValidate(network, params, first) IN
       IF v.err # {}
       THEN /\ FailedValidation(c, v.err)
            /\ UNCHANGED <<moray, nextEtag>>
       ELSE LET pool == NetworkPool(v.validated)
                r == putObject(moray, STR_napi_network_pools,
                        pool.params.uuid, poolRaw(pool), NOETAG,
                        nextEtag + 1)
            IN /\ moray' = r.st
               /\ nextEtag' = nextEtag + 1
               /\ callers' = [callers EXCEPT ![c] = IdleCaller]
    /\ UNCHANGED <<network, hist, opts, sent, cbres, txns, locks>>

\* updateNetworkPool up to the call of updateObj: getNetworkPool, then
\* validate.params
UpdateNetworkPoolGet(c, params) ==
    /\ HandlerFree(c)
    /\ LET got == getObject(moray, STR_napi_network_pools, params.uuid) IN
       IF got.err # Err_none THEN Failed(c, got.err)
       ELSE LET oldPool == NetworkPool(got.rec.value) IN
            \E first \in FirstOf(network,
                            updatePoolParams(oldPool, params)) :
            LET v == updatePoolValidate(network, oldPool, params, first)
            IN IF v.err # {} THEN FailedValidation(c, v.err)
               ELSE callers' = [callers EXCEPT ![c] = Merge(IdleCaller,
                        [pc |-> "pool_put",
                         updateOpts |-> [key |-> params.uuid],
                         value |-> poolToUpdate(oldPool, v.validated)])]
    /\ UNCHANGED <<moray, nextEtag, network, hist, opts, sent, cbres,
                   txns, locks>>

\* updateObj with opts.replace: the putObject reaches the store
UpdateNetworkPoolPut(c) ==
    /\ callers[c].pc = "pool_put"
    /\ nextEtag < MaxEtag
    /\ LET me == callers[c]
           r == putObject(moray, STR_napi_network_pools, me.updateOpts.key,
                    me.value, updateObjReplaceEtag, nextEtag + 1)
       IN /\ moray' = r.st
          /\ nextEtag' = nextEtag + 1
          /\ callers' = [callers EXCEPT ![c] = IdleCaller]
    /\ UNCHANGED <<network, hist, opts, sent, cbres, txns, locks>>

NextPool ==
    \/ \E c \in Handlers : \E params \in CreatePoolParams :
            CreateNetworkPool(c, params)
    \/ \E c \in Handlers : \E params \in UpdatePoolParams :
            UpdateNetworkPoolGet(c, params)
    \/ \E c \in Handlers : UpdateNetworkPoolPut(c)

SpecPool == InitPool /\ [][NextPool]_vars

\* the member networks of a stored pool
Members(v) == {network[u] : u \in Elems(v.networks) \cap DOMAIN network}

-----------------------------------------------------------------------------
(* Specification SpecNets: validateNetworks and validateNetworkOwners      *)
(* applied to one input each: an array of candidate UUIDs, or the parsed   *)
(* parameters of a pool with the networks resolved for it                  *)

RECURSIVE Arrays(_, _)
\* the arrays of at most n elements of set
Arrays(set, n) ==
    IF n = 0 THEN {<<>>}
    ELSE Arrays(set, n - 1)
         \cup {Append(a, x) : a \in {b \in Arrays(set, n - 1) : Len(b) = n - 1},
                              x \in set}

\* candidate lists: every short one, and lists of MAX_NETS and of
\* MAX_NETS + 1 UUIDs, of one network repeated or of distinct UUIDs
CandidateLists ==
    Arrays({PoolNet(n) : n \in 1 .. 5}, MaxNetList)
    \cup {[i \in 1 .. k |-> PoolNet(1)] : k \in {MAX_NETS, MAX_NETS + 1}}
    \cup {[i \in 1 .. k |-> PoolNet(i)] : k \in {MAX_NETS, MAX_NETS + 1}}

\* parsed parameters: an owner or none, resolved networks or none
ParsedPools ==
    {Merge(o, n) :
        o \in {EmptyObj}
              \cup {[owner_uuid |-> w] :
                        w \in PoolOwners \cup {UFDS_ADMIN_UUID, NoOwnerUUID}},
        n \in {EmptyObj}
              \cup {[_networks |-> {PoolNetworks[u] : u \in l}] :
                        l \in SUBSET DOMAIN PoolNetworks}}

InitNets ==
    /\ network = PoolNetworks
    /\ moray = StartStore(Network(FALSE, {}), [a \in Addrs |-> "absent"])
    /\ nextEtag = 0
    /\ \E input \in {[uuids |-> l] : l \in CandidateLists}
                    \cup {[parsed |-> q] : q \in ParsedPools} :
         callers = [c \in {1} |->
                        Merge(IdleCaller, [pc |-> "have", value |-> input])]
    /\ hist = NoLog
    /\ opts = NoOpts /\ sent = <<>> /\ cbres = NoCbres
    /\ txns = NoTxns /\ locks = NoLocks

\* validateNetworks(app, log, 'networks', uuids, callback): what the
\* callback gets, and the lookups made
NetsValidateNetworks ==
    /\ Has(callers[1].value, "uuids")
    /\ \E first \in FirstOf(network, [networks |-> callers[1].value.uuids]) :
         Applied("validateNetworks",
            Merge(validateNetworks(network, callers[1].value.uuids, first),
                  [lookups |->
                        validateNetworksLookups(callers[1].value.uuids)]))

\* validateNetworkOwners(original, parsed, callback)
NetsValidateNetworkOwners ==
    /\ Has(callers[1].value, "parsed")
    /\ Applied("validateNetworkOwners",
               validateNetworkOwners(callers[1].value.parsed))

NextNets ==
    \/ NetsValidateNetworks
    \/ NetsValidateNetworkOwners

SpecNets == InitNets /\ [][NextNets]_vars

\* C21: for more than MAX_NETS candidates validateNetworks answers one
\* invalid-parameter error on the list, the 'maximum' one, without an
\* invalid payload and without a lookup; for MAX_NETS candidates or fewer
\* its answer is never the 'maximum' error.
C21_CountCheck ==
    callers[1].pc = "validateNetworks"
    => LET uuids == callers[1].value.uuids
           r == callers[1].ret
       IN IF Len(uuids) > MAX_NETS
          THEN /\ r.err = {"networks"}
               /\ r.msg = "maximum"
               /\ r.invalid = {}
               /\ r.lookups = {}
          ELSE /\ r.err # {} => r.msg # "maximum"
               /\ r.lookups = Elems(uuids)

\* MAX_NETS + 1 existing networks were refused
C21_Witness ==
    /\ callers[1].pc = "validateNetworks"
    /\ Len(callers[1].value.uuids) = MAX_NETS + 1
    /\ Elems(callers[1].value.uuids) \subseteq DOMAIN network
    /\ callers[1].ret.msg = "maximum"

\* C22: when the count is within the limit and some candidates resolve to
\* no network, validateNetworks answers one 'unknown' error whose invalid
\* payload is exactly the unresolved UUIDs, even when the resolved ones
\* are on different nic tags; when all resolve and are on one nic tag it
\* returns every candidate with its network.
C22_UnknownAsGroup ==
    callers[1].pc = "validateNetworks"
    => LET uuids == callers[1].value.uuids
           r == callers[1].ret
           unresolved == Elems(uuids) \ DOMAIN network
       IN Len(uuids) <= MAX_NETS
          => /\ unresolved # {}
                => /\ r.err = {"networks"}
                   /\ r.msg = "unknown"
                   /\ r.invalid = unresolved
             /\ (/\ unresolved = {}
                 /\ \A u, w \in Elems(uuids) :
                        network[u].nic_tag = network[w].nic_tag)
                => /\ r.err = {}
                   /\ Elems(r.networks) = Elems(uuids)
                   /\ Len(r.networks) = Len(uuids)
                   /\ r._networks = {network[u] : u \in Elems(uuids)}

\* an unknown UUID was reported although two of the others are on
\* different nic tags
C22_Witness ==
    /\ callers[1].pc = "validateNetworks"
    /\ callers[1].ret.err # {}
    /\ callers[1].ret.msg = "unknown"
    /\ callers[1].ret.invalid = {PoolNet(5)}
    /\ \E u, w \in Elems(callers[1].value.uuids) \cap DOMAIN network :
            network[u].nic_tag # network[w].nic_tag

\* C23 (as claimed): for two existing networks on different nic tags
\* validateNetworks answers a tags-do-not-match error that lists both.
C23_TagsErrorListsBoth ==
    callers[1].pc = "validateNetworks"
    => LET uuids == callers[1].value.uuids
           r == callers[1].ret
       IN (/\ Len(uuids) = 2
           /\ Elems(uuids) \subseteq DOMAIN network
           /\ network[uuids[1]].nic_tag # network[uuids[2]].nic_tag)
          => /\ r.err = {"networks"}
             /\ r.msg = "tags"
             /\ r.invalid = Elems(uuids)

-----------------------------------------------------------------------------
(* nic model, common code: the cross-field checks of a NIC's parameters    *)

\* errors.invalidParam, errors.missingParam and errors.usedByParam: the
\* field, the kind of error and what the message is made of
invalidParam(field, msg) == [field |-> field, code |-> "Invalid", msg |-> msg]
missingParam(field) == [field |-> field, code |-> "MissingParameter"]
usedByParam(field, type, uuid) ==
    [field |-> field, code |-> "UsedBy", type |-> type, uuid |-> uuid]

badOwnerUUID(parsedParams, net) ==
    LET check_owner == ~Has(parsedParams, "check_owner")
                       \/ parsedParams.check_owner
    IN /\ Has(parsedParams, "owner_uuid")
       /\ check_owner
       /\ ~isOwner(net, parsedParams.owner_uuid)

\* a checkNetwork that accepts any nic_tag and vlan_id the NIC brings
checkNetworkFillOnly(parsedParams, name, net) ==
    [err |-> <<>>,
     parsed |-> Merge([nic_tag |-> net.nic_tag, vlan_id |-> net.vlan_id],
                      parsedParams)]

\* checkNetwork(parsedParams, name, network): the error it returns (none
\* is the empty list) and parsedParams as it leaves them
checkNetwork(parsedParams, name, net) ==
    IF badOwnerUUID(parsedParams, net)
    THEN [err |-> <<invalidParam("owner_uuid", "OWNER_MATCH_MSG")>>,
          parsed |-> parsedParams]
    ELSE IF Has(parsedParams, "nic_tag") /\ parsedParams.nic_tag # net.nic_tag
    THEN [err |-> <<invalidParam(name, "NIC_TAGS_DIFFER")>>,
          parsed |-> parsedParams]
    ELSE LET tagged == Merge(parsedParams, [nic_tag |-> net.nic_tag])
         IN IF Has(tagged, "vlan_id") /\ tagged.vlan_id # net.vlan_id
            THEN [err |-> <<invalidParam(name, "VLAN_IDS_DIFFER")>>,
                  parsed |-> tagged]
            ELSE [err |-> <<>>,
                  parsed |-> Merge(tagged, [vlan_id |-> net.vlan_id])]

\* a subnet check that refuses a held address whatever opts.create is
validateSubnetContainsIPAlways(st, create, name, net, ip) ==
    IF ip \notin net.subnet
    THEN [err |-> <<invalidParam(name, "IP_OUTSIDE")>>, done |-> <<>>]
    ELSE LET got == getObject(st, bucketName(net.uuid),
                              getIPReadKey(net, ip))
             res == getIPCallback(net, ip, got, TRUE).ip
         IN IF ~IPprovisionable(res)
            THEN [err |-> <<usedByParam(name, res.params.belongs_to_type,
                                        res.params.belongs_to_uuid)>>,
                  done |-> <<"mod_ip.get">>]
            ELSE [err |-> <<>>, res |-> res, done |-> <<"mod_ip.get">>]

\* validateSubnetContainsIP(opts, name, network, ip, callback) on the store
\* st, with create = opts.create: the callback's error and IP object, and
\* the reads made
validateSubnetContainsIP(st, create, name, net, ip) ==
    IF ip \notin net.subnet
    THEN [err |-> <<invalidParam(name, "IP_OUTSIDE")>>, done |-> <<>>]
    ELSE LET got == getObject(st, bucketName(net.uuid),
                              getIPReadKey(net, ip))
             res == getIPCallback(net, ip, got, TRUE).ip
         IN IF create /\ ~IPprovisionable(res)
            THEN [err |-> <<usedByParam(name, res.params.belongs_to_type,
                                        res.params.belongs_to_uuid)>>,
                  done |-> <<"mod_ip.get">>]
            ELSE [err |-> <<>>, res |-> res, done |-> <<"mod_ip.get">>]

\* mod_net.findContaining(opts, vlan_id, nic_tag, vnet_id, ip): the UUIDs
\* of the networks on that vlan and nic tag whose subnet holds the address
findContaining(nets, vlan_id, nic_tag, ip) ==
    {u \in DOMAIN nets : /\ nets[u].vlan_id = vlan_id
                         /\ nets[u].nic_tag = nic_tag
                         /\ ip \in nets[u].subnet}

\* saveIP, the callback given to the two address checks
saveIP(parsedParams, r, done) ==
    [err |-> r.err,
     parsed |-> IF Has(r, "res") THEN Merge(parsedParams, [_ip |-> r.res])
                ELSE parsedParams,
     done |-> done \o r.done]

\* a lookup that takes one of the networks when several hold the address
lookupUnknownIPFirstMatch(st, nets, create, parsedParams, name, unknownIP) ==
    LET uuids == findContaining(nets, parsedParams.vlan_id,
                                parsedParams.nic_tag, unknownIP)
    IN IF uuids = {}
       THEN [err |-> <<invalidParam(name, "IP_NONET")>>,
             parsed |-> parsedParams, done |-> <<"findContaining">>]
       ELSE LET net == nets[CHOOSE u \in uuids : TRUE]
                chk == checkNetwork(parsedParams, name, net)
            IN IF chk.err # <<>>
               THEN [err |-> chk.err, parsed |-> chk.parsed,
                     done |-> <<"findContaining", "checkNetwork">>]
               ELSE saveIP(chk.parsed,
                        validateSubnetContainsIP(st, create, name, net,
                                                 unknownIP),
                        <<"findContaining", "checkNetwork">>)

lookupUnknownIP(st, nets, create, parsedParams, name, unknownIP) ==
    LET uuids == findContaining(nets, parsedParams.vlan_id,
                                parsedParams.nic_tag, unknownIP)
    IN IF uuids = {}
       THEN [err |-> <<invalidParam(name, "IP_NONET")>>,
             parsed |-> parsedParams, done |-> <<"findContaining">>]
       ELSE IF Cardinality(uuids) > 1
       THEN [err |-> <<Merge(invalidParam(name, "IP_MULTI"),
                             [uuids |-> SortStrings(SetToArray(uuids))])>>,
             parsed |-> parsedParams, done |-> <<"findContaining">>]
       ELSE LET net == nets[CHOOSE u \in uuids : TRUE]
                chk == checkNetwork(parsedParams, name, net)
            IN IF chk.err # <<>>
               THEN [err |-> chk.err, parsed |-> chk.parsed,
                     done |-> <<"findContaining", "checkNetwork">>]
               ELSE saveIP(chk.parsed,
                        validateSubnetContainsIP(st, create, name, net,
                                                 unknownIP),
                        <<"findContaining", "checkNetwork">>)

\* a validateNetworkParams that tests ip with network_pool after the
\* checks of the network and the pool
validateNetworkParamsPoolLast(st, nets, create, parsedParams, intersect) ==
    IF Has(parsedParams, "network_pool")
    THEN IF badOwnerUUID(parsedParams, parsedParams.network_pool)
         THEN [err |-> <<invalidParam("owner_uuid", "OWNER_MATCH_MSG")>>,
               parsed |-> parsedParams, done |-> <<>>]
         ELSE IF Has(parsedParams, "ip")
         THEN [err |-> <<invalidParam("ip", "POOL_IP_MSG")>>,
               parsed |-> parsedParams, done |-> <<"getPoolIntersections">>]
         ELSE [err |-> <<>>, parsed |-> parsedParams,
               done |-> <<"getPoolIntersections">>]
    ELSE [err |-> <<>>, parsed |-> parsedParams, done |-> <<>>]

\* validateNetworkParams(opts, _, parsedParams, callback) on the store st
\* and the networks nets, with create = opts.create; intersect is what
\* getPoolIntersections does (it throws, or returns the intersections).
\* The answer is the callback's error list, parsedParams as the check
\* leaves them, and the steps made in order.
validateNetworkParams(st, nets, create, parsedParams, intersect) ==
    IF Has(parsedParams, "ip") /\ Has(parsedParams, "network_pool")
    THEN [err |-> <<invalidParam("ip", "POOL_IP_MSG")>>,
          parsed |-> parsedParams, done |-> <<>>]
    ELSE
    LET chk == IF Has(parsedParams, "network")
               THEN checkNetwork(parsedParams, "network_uuid",
                                 parsedParams.network)
               ELSE [err |-> <<>>, parsed |-> parsedParams]
        d1 == IF Has(parsedParams, "network") THEN <<"checkNetwork">>
              ELSE <<>>
        p1 == chk.parsed
    IN IF chk.err # <<>>
       THEN [err |-> chk.err, parsed |-> p1, done |-> d1]
       ELSE IF Has(p1, "network_pool")
               /\ badOwnerUUID(p1, p1.network_pool)
       THEN [err |-> <<invalidParam("owner_uuid", "OWNER_MATCH_MSG")>>,
             parsed |-> p1, done |-> d1]
       ELSE IF Has(p1, "network_pool") /\ intersect = "throws"
       THEN [err |-> <<invalidParam("network_uuid", "no intersection")>>,
             parsed |-> p1, done |-> Append(d1, "getPoolIntersections")]
       ELSE
       LET p2 == IF Has(p1, "network_pool")
                 THEN Merge(p1, [intersections |-> intersect])
                 ELSE p1
           d2 == IF Has(p1, "network_pool")
                 THEN Append(d1, "getPoolIntersections")
                 ELSE d1
           errs == SelectSeq(<<"nic_tag", "vlan_id">>,
                             LAMBDA q : ~Has(p2, q))
       IN IF ~Has(p2, "ip")
          THEN [err |-> <<>>, parsed |-> p2, done |-> d2]
          ELSE IF Has(p2, "network")
          THEN saveIP(p2, validateSubnetContainsIP(st, create, "ip",
                                                   p2.network, p2.ip), d2)
          ELSE IF errs # <<>>
          THEN [err |-> [k \in 1 .. Len(errs) |-> missingParam(errs[k])],
                parsed |-> p2, done |-> d2]
          ELSE LET r == lookupUnknownIP(st, nets, create, p2, "ip", p2.ip)
               IN [err |-> r.err, parsed |-> r.parsed,
                   done |-> d2 \o r.done]

validateFabricNic(parsedParams) ==
    LET fabric == IF Has(parsedParams, "network")
                  THEN parsedParams.network.fabric
                  ELSE FALSE
    IN IF fabric /\ ~Has(parsedParams, "cn_uuid")
       THEN <<missingParam("cn_uuid")>>
       ELSE <<>>

\* validateUnderlayServer(opts, params, _parsedParams, callback), with
\* existingNic = opts.existingNic
validateUnderlayServer(existingNic, params) ==
    LET belongs_to_type == IF Has(params, "belongs_to_type")
                           THEN params.belongs_to_type
                           ELSE existingNic.params.belongs_to_type
    IN IF Has(params, "underlay") /\ params.underlay
          /\ belongs_to_type # "server"
       THEN <<invalidParam("underlay", "SERVER_UNDERLAY_MSG")>>
       ELSE <<>>

-----------------------------------------------------------------------------
(* Specification SpecNic: the cross-field checks applied to one set of NIC *)
(* parameters, of a create or of an update of an existing NIC, each alone  *)
(* and one after the other as the after checks of validate.params          *)

NicNet(n) == <<110, 105, 99>> \o NumToStr(n)

OutsideAddr == FirstAddr + NAddr

\* two networks on one nic tag and vlan whose subnets share their last
\* address, the second with an owner, and a fabric network on another
NicNetworks ==
    [u \in {NicNet(n) : n \in 1 .. 3} |->
        LET n == CHOOSE m \in 1 .. 3 : u = NicNet(m)
        IN [uuid |-> u, ip_use_strings |-> FALSE, fabric |-> n = 3,
            owner_uuids |-> IF n = 2 THEN {Owner(1)} ELSE {},
            nic_tag |-> Tag(IF n = 3 THEN 2 ELSE 1),
            vlan_id |-> IF n = 3 THEN 1 ELSE 0,
            subnet |-> IF n = 2 THEN {FirstAddr + NAddr - 1} ELSE Addrs]]

NicPool ==
    [uuid |-> PoolUUID, owner_uuids |-> {Owner(1)},
     networks |-> <<NicNet(1), NicNet(2)>>]

\* the rows of the networks' IP buckets: every network has the same kind
\* of row for an address
NicStore(kinds) ==
    [id \in {RowId(bucketName(u), getIPKey(FALSE, a)) :
                u \in DOMAIN NicNetworks,
                a \in {b \in Addrs : kinds[b] # "absent"}} |->
        LET u == CHOOSE w \in DOMAIN NicNetworks :
                    \E b \in Addrs :
                        id = RowId(bucketName(w), getIPKey(FALSE, b))
            a == CHOOSE b \in Addrs :
                    id = RowId(bucketName(u), getIPKey(FALSE, b))
        IN [value |-> StartValue(NicNetworks[u], a, kinds[a]),
            _etag |-> a - FirstAddr + 1]]

\* an optional property: absent, or one of vals
Optional(name, vals) == {EmptyObj} \cup {[k \in {name} |-> v] : v \in vals}

\* parsedParams after the field validators: validateNetwork gives network
\* or network_pool, never both
NicParsedParams ==
    {Merge(Merge(Merge(i, n), Merge(t, v)), Merge(o, c)) :
        i \in Optional("ip", Addrs \cup {OutsideAddr}),
        n \in Optional("network", {NicNetworks[u] : u \in DOMAIN NicNetworks})
              \cup {[network_pool |-> NicPool]},
        t \in Optional("nic_tag", {Tag(1), Tag(2)}),
        v \in Optional("vlan_id", {0, 1}),
        o \in Optional("owner_uuid", {Owner(1), Owner(2)}),
        c \in Optional("cn_uuid", {Server})}

\* the stored NICs an update may meet
ExistingNics ==
    {[params |-> [belongs_to_type |-> "server", underlay |-> TRUE]],
     [params |-> [belongs_to_type |-> "server", underlay |-> FALSE]],
     [params |-> [belongs_to_type |-> "zone", underlay |-> FALSE]]}

\* what a request says of belongs_to_type and underlay; a create must
\* give belongs_to_type
NicParams(create) ==
    {Merge(b, w) :
        b \in {[belongs_to_type |-> x] : x \in {"server", "zone"}}
              \cup (IF create THEN {} ELSE {EmptyObj}),
        w \in Optional("underlay", BOOLEAN)}

\* the inputs: every parsedParams with one request and one stored NIC, and
\* every request and stored NIC with one parsedParams
NicInputs ==
    {[create |-> cr, params |-> [belongs_to_type |-> "zone"],
      parsed |-> q,
      existingNic |-> [params |-> [belongs_to_type |-> "zone",
                                   underlay |-> FALSE]]] :
        cr \in BOOLEAN, q \in NicParsedParams}
    \cup {[create |-> FALSE, params |-> r, parsed |-> EmptyObj,
           existingNic |-> x] :
            r \in NicParams(FALSE), x \in ExistingNics}
    \cup {[create |-> TRUE, params |-> r, parsed |-> EmptyObj,
           existingNic |-> [params |-> EmptyObj]] :
            r \in NicParams(TRUE)}

InitNic ==
    /\ network = NicNetworks
    /\ \E kinds \in [Addrs -> {"absent", "other", "taken"}] :
         moray = NicStore(kinds)
    /\ nextEtag = 0
    /\ \E input \in NicInputs :
         callers = [c \in {1} |->
                        Merge(IdleCaller, [pc |-> "have", value |-> input])]
    /\ hist = NoLog
    /\ opts = NoOpts /\ sent = <<>> /\ cbres = NoCbres
    /\ txns = NoTxns /\ locks = NoLocks

\* the after checks of validate.params, one after the other until one
\* fails: the error list, parsedParams, and the steps made
validateAfter(st, nets, input, intersect) ==
    LET np == validateNetworkParams(st, nets, input.create, input.parsed,
                                    intersect)
        fab == validateFabricNic(np.parsed)
        und == validateUnderlayServer(input.existingNic, input.params)
    IN [err |-> IF np.err # <<>> THEN np.err
                ELSE IF fab # <<>> THEN fab
                ELSE und,
        parsed |-> np.parsed, done |-> np.done]

NicValidateNetworkParams ==
    \E intersect \in {"throws", "networks"} :
        Applied("validateNetworkParams",
            validateNetworkParams(moray, network, callers[1].value.create,
                                  callers[1].value.parsed, intersect))

NicValidateFabricNic ==
    Applied("validateFabricNic",
        [err |-> validateFabricNic(callers[1].value.parsed)])

NicValidateUnderlayServer ==
    Applied("validateUnderlayServer",
        [err |-> validateUnderlayServer(callers[1].value.existingNic,
                                        callers[1].value.params)])

NicValidate ==
    \E intersect \in {"throws", "networks"} :
        Applied("validate",
            validateAfter(moray, network, callers[1].value, intersect))

NextNic ==
    \/ NicValidateNetworkParams
    \/ NicValidateFabricNic
    \/ NicValidateUnderlayServer
    \/ NicValidate

SpecNic == InitNic /\ [][NextNic]_vars

\* validateNetworkParams has answered
NetworkParamsChecked == callers[1].pc = "validateNetworkParams"

\* C25: for parameters with both an ip and a resolved network_pool,
\* validateNetworkParams answers one invalid-parameter error on 'ip',
\* having made no network cross-check, pool intersection or lookup, and
\* whatever else the parameters hold.
C25_PoolWithIPRejected ==
    (/\ NetworkParamsChecked
     /\ Has(callers[1].value.parsed, "ip")
     /\ Has(callers[1].value.parsed, "network_pool"))
    => /\ callers[1].ret.err = <<invalidParam("ip", "POOL_IP_MSG")>>
       /\ callers[1].ret.done = <<>>
       /\ callers[1].ret.parsed = callers[1].value.parsed

\* an ip with a pool was refused for the ip although the owner does not
\* own the pool
C25_Witness ==
    /\ NetworkParamsChecked
    /\ Has(callers[1].value.parsed, "ip")
    /\ Has(callers[1].value.parsed, "network_pool")
    /\ Has(callers[1].value.parsed, "owner_uuid")
    /\ callers[1].value.parsed.owner_uuid = Owner(2)
    /\ callers[1].ret.err[1].field = "ip"

\* C26: with a resolved network, parameters that pass validateNetworkParams
\* leave it with the network's nic_tag and vlan_id; a nic_tag or vlan_id
\* given that differs from the network's is an error, and one not given is
\* filled in from the network.
C26_TagAndVlanAgree ==
    (NetworkParamsChecked /\ Has(callers[1].value.parsed, "network"))
    => LET given == callers[1].value.parsed
           net == given.network
           r == callers[1].ret
       IN /\ r.err = <<>>
             => /\ r.parsed.nic_tag = net.nic_tag
                /\ r.parsed.vlan_id = net.vlan_id
          /\ (Has(given, "nic_tag") /\ given.nic_tag # net.nic_tag)
             => /\ r.err # <<>>
                /\ r.err[1].field \in {"owner_uuid", "network_uuid"}
                /\ r.err[1].field = "network_uuid"
                   => r.err[1].msg = "NIC_TAGS_DIFFER"
          /\ (Has(given, "vlan_id") /\ given.vlan_id # net.vlan_id)
             => /\ r.err # <<>>
                /\ r.err[1].field \in {"owner_uuid", "network_uuid"}
                /\ (/\ r.err[1].field = "network_uuid"
                    /\ ~(Has(given, "nic_tag")
                         /\ given.nic_tag # net.nic_tag))
                   => r.err[1].msg = "VLAN_IDS_DIFFER"

\* parameters that gave a network and an ip only passed, with the
\* network's nic_tag and vlan_id filled in
C26_Witness ==
    /\ NetworkParamsChecked
    /\ DOMAIN callers[1].value.parsed = {"network", "ip"}
    /\ callers[1].ret.err = <<>>
    /\ callers[1].ret.parsed.nic_tag = callers[1].value.parsed.network.nic_tag
    /\ callers[1].ret.parsed.vlan_id = callers[1].value.parsed.network.vlan_id

\* the networks on a vlan and nic tag whose subnet holds an address
Containing(vlan_id, nic_tag, ip) ==
    {u \in DOMAIN network : /\ network[u].vlan_id = vlan_id
                            /\ network[u].nic_tag = nic_tag
                            /\ ip \in network[u].subnet}

\* C27: for an ip without network (or pool), validateNetworkParams answers
\* a missing-parameter error for each of nic_tag and vlan_id that is not
\* given, together; with both given, no containing network is a
\* no-such-network error, several are an ambiguous-network error naming
\* each of them, and only with exactly one the network cross-check and then
\* the subnet check are made.
C27_UnknownIPLookup ==
    (/\ NetworkParamsChecked
     /\ Has(callers[1].value.parsed, "ip")
     /\ ~Has(callers[1].value.parsed, "network")
     /\ ~Has(callers[1].value.parsed, "network_pool"))
    => LET given == callers[1].value.parsed
           r == callers[1].ret
           missing == {"nic_tag", "vlan_id"} \ DOMAIN given
           found == Containing(given.vlan_id, given.nic_tag, given.ip)
       IN IF missing # {}
          THEN /\ Len(r.err) = Cardinality(missing)
               /\ {e.field : e \in Elems(r.err)} = missing
               /\ \A e \in Elems(r.err) : e.code = "MissingParameter"
               /\ r.done = <<>>
          ELSE IF found = {}
          THEN /\ r.err = <<invalidParam("ip", "IP_NONET")>>
               /\ r.done = <<"findContaining">>
          ELSE IF Cardinality(found) > 1
          THEN /\ Len(r.err) = 1
               /\ r.err[1].field = "ip"
               /\ r.err[1].msg = "IP_MULTI"
               /\ Elems(r.err[1].uuids) = found
               /\ r.done = <<"findContaining">>
          ELSE /\ Len(r.done) >= 2
               /\ r.done[1] = "findContaining"
               /\ r.done[2] = "checkNetwork"
               /\ r.err = <<>>
                  => /\ r.done = <<"findContaining", "checkNetwork",
                                   "mod_ip.get">>
                     /\ r.parsed._ip.params.network.uuid \in found

\* an address that two networks hold was refused with both named
C27_Witness ==
    /\ NetworkParamsChecked
    /\ ~Has(callers[1].value.parsed, "network")
    /\ callers[1].ret.err # <<>>
    /\ callers[1].ret.err[1].code = "Invalid"
    /\ callers[1].ret.err[1].msg = "IP_MULTI"
    /\ callers[1].ret.err[1].uuids = <<NicNet(1), NicNet(2)>>

\* the network the checked parameters put the NIC on: the one given, or
\* the one of the IP object kept as _ip
NicNetworkOf(parsed) ==
    IF Has(parsed, "network") THEN {parsed.network}
    ELSE IF Has(parsed, "_ip") THEN {parsed._ip.params.network}
    ELSE {}

\* the row of an address names a holder other than the administrator's
\* placeholder
HeldRow(net, ip) ==
    LET id == RowId(bucketName(net.uuid), getIPKey(FALSE, ip))
    IN /\ id \in DOMAIN moray
       /\ Has(moray[id].value, "belongs_to_uuid")
       /\ ~(/\ moray[id].value.belongs_to_type = "other"
            /\ moray[id].value.belongs_to_uuid = UFDS_ADMIN_UUID)

\* C28 (as claimed): parameters with an ip pass validateNetworkParams only
\* if the address is in the resolved network's subnet and its row is not
\* held; an address outside the subnet is refused without a read of the IP
\* bucket, and a held address is refused with a used-by error naming the
\* holder.
C28_HeldAddressRejected ==
    (NetworkParamsChecked /\ Has(callers[1].value.parsed, "ip"))
    => LET given == callers[1].value.parsed
           r == callers[1].ret
       IN /\ r.err = <<>>
             => \A net \in NicNetworkOf(r.parsed) :
                    given.ip \in net.subnet /\ ~HeldRow(net, given.ip)
          /\ (/\ Has(given, "network")
              /\ given.ip \notin given.network.subnet)
             => /\ r.err # <<>>
                /\ "mod_ip.get" \notin Elems(r.done)
          /\ (/\ Has(given, "network")
              /\ given.ip \in given.network.subnet
              /\ HeldRow(given.network, given.ip)
              /\ "mod_ip.get" \in Elems(r.done))
             => /\ r.err # <<>>
                /\ r.err[1].code = "UsedBy"
                /\ r.err[1].type = "zone"
                /\ r.err[1].uuid = VM(0)

\* C28 (amended): the same, with the test of the holder made only when
\* opts.create is set: on create a held address is refused with a used-by
\* error naming the holder, otherwise the address passes with its record.
C28_HeldAddressRejectedOnCreate ==
    (NetworkParamsChecked /\ Has(callers[1].value.parsed, "ip"))
    => LET given == callers[1].value.parsed
           create == callers[1].value.create
           r == callers[1].ret
           id(net) == RowId(bucketName(net.uuid), getIPKey(FALSE, given.ip))
       IN /\ r.err = <<>>
             => /\ NicNetworkOf(r.parsed) # {}
                /\ \A net \in NicNetworkOf(r.parsed) :
                    /\ given.ip \in net.subnet
                    /\ create => ~HeldRow(net, given.ip)
                    /\ r.parsed._ip.params.ip = given.ip
          /\ (/\ Has(given, "network")
              /\ given.ip \notin given.network.subnet)
             => /\ r.err # <<>>
                /\ r.err[1].field = "ip"
                   => r.err = <<invalidParam("ip", "IP_OUTSIDE")>>
                /\ "mod_ip.get" \notin Elems(r.done)
          /\ (/\ Has(given, "network")
              /\ given.ip \in given.network.subnet
              /\ HeldRow(given.network, given.ip)
              /\ "mod_ip.get" \in Elems(r.done))
             => IF create
                THEN r.err =
                        <<usedByParam("ip",
                            moray[id(given.network)].value.belongs_to_type,
                            moray[id(given.network)].value.belongs_to_uuid)>>
                ELSE /\ r.err = <<>>
                     /\ r.parsed._ip.params.belongs_to_uuid =
                            moray[id(given.network)].value.belongs_to_uuid

\* a create was refused an address that a zone holds
C28_Witness ==
    /\ NetworkParamsChecked
    /\ callers[1].value.create
    /\ Has(callers[1].value.parsed, "network")
    /\ callers[1].ret.err # <<>>
    /\ callers[1].ret.err[1].code = "UsedBy"
    /\ callers[1].ret.err[1].type = "zone"
    /\ callers[1].ret.err[1].uuid = VM(0)

\* C29 (as claimed): validateFabricNic fails, with a missing-parameter
\* error for cn_uuid, exactly when the NIC's network is a fabric network
\* and cn_uuid is absent; so parameters that pass the checks and put the
\* NIC on a fabric network have cn_uuid.
C29_FabricNicHasCn ==
    /\ callers[1].pc = "validateFabricNic"
       => LET given == callers[1].value.parsed
          IN IF /\ \E net \in NicNetworkOf(given) : net.fabric
                /\ ~Has(given, "cn_uuid")
             THEN callers[1].ret.err = <<missingParam("cn_uuid")>>
             ELSE callers[1].ret.err = <<>>
    /\ (callers[1].pc = "validate" /\ callers[1].ret.err = <<>>)
       => \A net \in NicNetworkOf(callers[1].ret.parsed) :
            net.fabric => Has(callers[1].ret.parsed, "cn_uuid")

\* the NIC a request ends with: what the request gives, and for an update
\* the stored NIC's value for what it does not give
EndNic(input) ==
    IF input.create THEN input.params
    ELSE Merge(input.existingNic.params, input.params)

\* C30 (as claimed): validateUnderlayServer fails, with an
\* invalid-parameter error on 'underlay', exactly when the request sets
\* underlay to true and the request's belongs_to_type, or without one the
\* stored NIC's, is not 'server'; so no create or update that passes the
\* checks ends with underlay true and a belongs_to_type other than
\* 'server'.
C30_UnderlayOnlyOnServer ==
    /\ callers[1].pc = "validateUnderlayServer"
       => LET input == callers[1].value
              type == IF Has(input.params, "belongs_to_type")
                      THEN input.params.belongs_to_type
                      ELSE input.existingNic.params.belongs_to_type
          IN IF /\ Has(input.params, "underlay")
                /\ input.params.underlay
                /\ type # "server"
             THEN callers[1].ret.err =
                    <<invalidParam("underlay", "SERVER_UNDERLAY_MSG")>>
             ELSE callers[1].ret.err = <<>>
    /\ (callers[1].pc = "validate" /\ callers[1].ret.err = <<>>)
       => LET nic == EndNic(callers[1].value)
          IN ~(/\ Has(nic, "underlay") /\ nic.underlay
               /\ nic.belongs_to_type # "server")

-----------------------------------------------------------------------------
(* Resolving a reference to a network or a network pool: getObj,           *)
(* getNetworkPool, validateNetworkPool, validateNetworkUUID,               *)
(* validateNetwork and validateIPv4Network                                  *)

STR_admin == <<97, 100, 109, 105, 110>>
Err_Transport == "ConnectTimeoutError"

\* the error object of a failed store call or lookup
storeError(name) == [code |-> name]

\* a printed UUID that differs from the others in one digit
UUIDString(d) ==
    [i \in 1 .. 36 |-> IF i \in {9, 14, 19, 24} THEN 45
                       ELSE IF i = 8 THEN 48 + d ELSE 48]

\* validate.UUID: 8-4-4-4-12 hexadecimal digits
validUUID(str) ==
    /\ Len(str) = 36
    /\ \A i \in 1 .. 36 :
        IF i \in {9, 14, 19, 24} THEN str[i] = 45
        ELSE str[i] \in (48 .. 57) \cup (97 .. 102) \cup (65 .. 70)

\* getObj(moray, bucket, key, callback); fail: the store call fails with a
\* transport error
getObj(st, bucket, key, fail) ==
    LET got == getObject(st, bucket, key)
    IN IF fail THEN [err |-> <<storeError(Err_Transport)>>]
       ELSE IF got.err = Err_ObjectNotFound
       THEN [err |-> <<storeError(Err_ResourceNotFound)>>]
       ELSE [err |-> <<>>, rec |-> got.rec]

\* mod_net.get: the network of that UUID (or the admin network for
\* 'admin'), not-found, or the store's failure
netGet(nets, uuid, fail) ==
    IF fail THEN [err |-> <<storeError(Err_Transport)>>]
    ELSE IF uuid \in DOMAIN nets THEN [err |-> <<>>, res |-> nets[uuid]]
    ELSE [err |-> <<storeError(Err_ResourceNotFound)>>]

\* getNetworkPool(app, log, {uuid: uuid}, callback); fails: the store
\* calls that fail
getNetworkPool(st, nets, uuid, fails) ==
    IF ~validUUID(uuid)
    THEN [err |-> <<[code |-> Err_Validation,
                     errors |-> <<invalidParam("uuid", "invalid UUID")>>]>>]
    ELSE LET got == getObj(st, STR_napi_network_pools, uuid,
                           "pool" \in fails)
         IN IF got.err # <<>> THEN [err |-> got.err]
            ELSE IF ~Has(got.rec.value, "networks")
                    \/ got.rec.value.networks = <<>>
            THEN [err |-> <<>>, res |-> NetworkPool(got.rec.value)]
            ELSE LET first == netGet(nets, got.rec.value.networks[1],
                                     "member" \in fails)
                 IN IF first.err # <<>> THEN [err |-> first.err]
                    ELSE [err |-> <<>>,
                          res |-> NetworkPool(Merge(got.rec.value,
                                    [_networks |-> <<first.res>>]))]

validateNetworkPool(st, nets, name, uuid, fails) ==
    LET got == getNetworkPool(st, nets, uuid, fails)
    IN IF got.err # <<>>
       THEN IF got.err[1].code = Err_ResourceNotFound
            THEN [err |-> <<invalidParam(name, "network does not exist")>>]
            ELSE [err |-> got.err]
       ELSE [err |-> <<>>,
             toReturn |-> Merge([network_pool |-> got.res],
                                [k \in {name} |-> got.res.params.uuid])]

validateNetworkUUID(name, uuid) ==
    IF uuid = STR_admin THEN <<>>
    ELSE IF validUUID(uuid) THEN <<>>
    ELSE <<invalidParam(name, "invalid UUID")>>

\* validateNetwork(opts, name, uuid, callback): the callback's error (none
\* is the empty list) and toReturn, and the lookups made
validateNetwork(st, nets, name, uuid, fails) ==
    IF validateNetworkUUID(name, uuid) # <<>>
    THEN [err |-> validateNetworkUUID(name, uuid), done |-> <<>>]
    ELSE LET got == netGet(nets, uuid, "net" \in fails)
         IN IF got.err # <<>>
            THEN IF got.err[1].code = Err_ResourceNotFound
                 THEN Merge(validateNetworkPool(st, nets, name, uuid, fails),
                            [done |-> <<"mod_net.get", "mod_pool.get">>])
                 ELSE [err |-> got.err, done |-> <<"mod_net.get">>]
            ELSE [err |-> <<>>,
                  toReturn |-> Merge([network |-> got.res],
                                     [k \in {name} |-> got.res.uuid]),
                  done |-> <<"mod_net.get">>]

\* the family of what validateNetwork resolved: a pool built by
\* NetworkPool has none
familyOf(toReturn) ==
    LET net == IF Has(toReturn, "network") THEN toReturn.network
               ELSE toReturn.network_pool
    IN IF Has(net, "family") THEN net.family ELSE "undefined"

validateIPv4Network(st, nets, name, uuid, fails) ==
    LET got == validateNetwork(st, nets, name, uuid, fails)
    IN IF got.err # <<>> THEN got
       ELSE IF familyOf(got.toReturn) # "ipv4"
       THEN [err |-> <<invalidParam(name, "NET_BAD_AF")>>, done |-> got.done]
       ELSE got

-----------------------------------------------------------------------------
(* Specification SpecResolve: one reference resolved by validateNetwork or *)
(* validateIPv4Network, or one row read by getObj, with store calls that   *)
(* may fail                                                                 *)

\* an IPv4 and an IPv6 network, and the admin network
ResolveNetworks ==
    [u \in {UUIDString(1), UUIDString(2), STR_admin} |->
        [uuid |-> IF u = STR_admin THEN UUIDString(5) ELSE u,
         nic_tag |-> Tag(1),
         family |-> IF u = UUIDString(2) THEN "ipv6" ELSE "ipv4"]]

\* the row of a pool of the IPv4 network
ResolvePoolRow ==
    [value |-> [uuid |-> UUIDString(3), name |-> "pool",
                networks |-> <<UUIDString(1)>>],
     _etag |-> 1]

\* what a request may give as a reference: admin, the networks, the pool,
\* a UUID of nothing, and a string that is no UUID
References ==
    {STR_admin, <<122>>} \cup {UUIDString(d) : d \in 1 .. 4}

InitResolve ==
    /\ \E present \in SUBSET {STR_admin, UUIDString(2)} :
         network = [u \in {UUIDString(1)} \cup present |-> ResolveNetworks[u]]
    /\ \E pools \in SUBSET {UUIDString(3)} :
         moray = [id \in {RowId(STR_napi_network_pools, u) : u \in pools} |->
                        ResolvePoolRow]
    /\ nextEtag = 1
    /\ \E name \in {"network_uuid", "networks"}, uuid \in References :
         callers = [c \in {1} |->
                        Merge(IdleCaller,
                              [pc |-> "have",
                               value |-> [name |-> name, uuid |-> uuid]])]
    /\ hist = NoLog
    /\ opts = NoOpts /\ sent = <<>> /\ cbres = NoCbres
    /\ txns = NoTxns /\ locks = NoLocks

StoreCalls == {"net", "pool", "member"}

ResolveValidateNetwork ==
    \E fails \in SUBSET StoreCalls :
        Applied("validateNetwork",
            Merge(validateNetwork(moray, network, callers[1].value.name,
                                  callers[1].value.uuid, fails),
                  [fails |-> fails]))

ResolveValidateIPv4Network ==
    \E fails \in SUBSET StoreCalls :
        Applied("validateIPv4Network",
            Merge(validateIPv4Network(moray, network, callers[1].value.name,
                                      callers[1].value.uuid, fails),
                  [fails |-> fails]))

ResolveGetObj ==
    \E fail \in BOOLEAN :
        Applied("getObj",
            Merge(getObj(moray, STR_napi_network_pools,
                         callers[1].value.uuid, fail),
                  [fails |-> IF fail THEN {"pool"} ELSE {}]))

\* validateNetworks(app, log, name, [uuid], callback)
ResolveValidateNetworks ==
    \E fail \in BOOLEAN :
        LET uuids == <<callers[1].value.uuid>>
            answered == networksAnswered(network,
                            IF fail THEN Elems(uuids) ELSE {})
        IN \E first \in FirstOf(answered, [networks |-> uuids]) :
            Applied("validateNetworks",
                Merge(validateNetworks(answered, uuids, first),
                      [fails |-> IF fail THEN {"net"} ELSE {}]))

NextResolve ==
    \/ ResolveValidateNetwork
    \/ ResolveValidateIPv4Network
    \/ ResolveGetObj
    \/ ResolveValidateNetworks

SpecResolve == InitResolve /\ [][NextResolve]_vars

\* a pool of that UUID is stored
PoolStored(uuid) == RowId(STR_napi_network_pools, uuid) \in DOMAIN moray

\* C31 (as claimed): validateNetwork does not test the format of 'admin';
\* a reference that resolves to a network yields that network; the pool is
\* looked up only when the network lookup reports not-found; when neither
\* a network nor a pool exists the result is an invalid-parameter error
\* 'network does not exist' on the referencing field; validateIPv4Network
\* also refuses what resolves to a network or pool whose family is not
\* ipv4.
C31_ResolveNetworkOrPool ==
    /\ callers[1].pc = "validateNetwork"
       => LET name == callers[1].value.name
              uuid == callers[1].value.uuid
              r == callers[1].ret
          IN /\ uuid = STR_admin => Len(r.done) >= 1
             /\ (uuid \in DOMAIN network /\ "net" \notin r.fails)
                => /\ r.err = <<>>
                   /\ r.toReturn.network = network[uuid]
                   /\ r.toReturn[name] = network[uuid].uuid
                   /\ r.done = <<"mod_net.get">>
             /\ "mod_pool.get" \in Elems(r.done)
                => (uuid \notin DOMAIN network /\ "net" \notin r.fails)
             /\ (/\ r.fails = {}
                 /\ uuid = STR_admin \/ validUUID(uuid)
                 /\ uuid \notin DOMAIN network
                 /\ ~PoolStored(uuid))
                => r.err = <<invalidParam(name, "network does not exist")>>
    /\ callers[1].pc = "validateIPv4Network"
       => LET name == callers[1].value.name
              uuid == callers[1].value.uuid
              r == callers[1].ret
              plain == validateNetwork(moray, network, name, uuid, r.fails)
              resolved == IF Has(plain.toReturn, "network")
                          THEN plain.toReturn.network
                          ELSE plain.toReturn.network_pool
          IN IF plain.err # <<>> THEN r.err = plain.err
             ELSE IF Has(resolved, "family") /\ resolved.family = "ipv4"
             THEN r.err = <<>> /\ r.toReturn = plain.toReturn
             ELSE r.err = <<invalidParam(name, "NET_BAD_AF")>>

\* C32 (as claimed): a failure of the store other than not-found, met by
\* getObj, by validateNetwork's network lookup, by its pool fallback or by
\* a member lookup of validateNetworks, is what the caller gets, and is
\* not turned into a validation error.
C32_StoreFailureUnchanged ==
    LET r == callers[1].ret
        uuid == callers[1].value.uuid
        transport == <<storeError(Err_Transport)>>
    IN /\ (callers[1].pc = "getObj" /\ r.fails # {})
          => r.err = transport
       /\ (callers[1].pc = "validateNetwork" /\ r.done # <<>>)
          => /\ "net" \in r.fails => r.err = transport
             /\ (/\ "net" \notin r.fails
                 /\ "mod_pool.get" \in Elems(r.done)
                 /\ validUUID(uuid)
                 /\ "pool" \in r.fails)
                => r.err = transport
             /\ (/\ "net" \notin r.fails
                 /\ "mod_pool.get" \in Elems(r.done)
                 /\ PoolStored(uuid)
                 /\ "pool" \notin r.fails
                 /\ "member" \in r.fails)
                => r.err = transport
       /\ (callers[1].pc = "validateNetworks" /\ r.fails # {})
          => r.err # {"networks"}

-----------------------------------------------------------------------------
(* Specification SpecEncoding: one handler that reads, creates, updates,   *)
(* deletes and batch-writes the addresses of a network whose bucket holds  *)
(* numeric or string rows                                                  *)

InitEncoding ==
    /\ \E us \in BOOLEAN : network = Network(us, {Owner(1)})
    /\ moray = StartStore(network, [a \in Addrs |-> "absent"])
    \* the store has versions left for three writes
    /\ nextEtag = MaxEtag - 3
    /\ callers = [c \in {Server} |-> IdleCaller]
    /\ hist = {}
    /\ opts = NoOpts /\ sent = <<>> /\ cbres = NoCbres
    /\ txns = NoTxns /\ locks = NoLocks

NextEncoding ==
    \/ \E a \in Addrs : GetIP(Server, a)
    \/ \E a \in Addrs : \E body \in IPBodies(Server) :
            CreateIP(Server, a, body)
    \/ \E withOld \in BOOLEAN : \E body \in IPBodies(Server) :
            UpdateIPGet(Server, body, withOld)
    \/ UpdateIPPut(Server)
    \/ DeleteIP(Server)
    \/ BatchPut(Server, AllocParams(Server))
    \/ UnassignBatch(Server)
    \/ \E as \in AddrSeqs : BatchCreateIPs(Server, as)

SpecEncoding == InitEncoding /\ [][NextEncoding]_vars

\* a key and a value are of the string form, or of the numeric form
EncodedAs(use_strings, key, value) ==
    IF use_strings
    THEN /\ Has(value, "ipaddr") /\ ~Has(value, "ip")
         /\ key = value.ipaddr
         /\ toIPAddr(key) \in Addrs
    ELSE /\ Has(value, "ip") /\ ~Has(value, "ipaddr")
         /\ key = NumToStr(value.ip)
         /\ value.ip \in Addrs

\* C33: the key() and the raw() of every IP object a handler holds are of
\* one form, the string form exactly when the object's use_strings is set,
\* and every row of the network's bucket, whichever of createIP, updateIP,
\* deleteIP or a batch put wrote it, is of the form that the network's
\* ip_use_strings selects.
C33_EncodingNotMixed ==
    /\ \A c \in DOMAIN callers :
        callers[c].existingIP # EmptyObj
        => EncodedAs(callers[c].existingIP.use_strings,
                     IPkey(callers[c].existingIP),
                     IPraw(callers[c].existingIP))
    /\ \A id \in DOMAIN moray :
        id[1] = IPBucket
        => EncodedAs(network.ip_use_strings, id[2], moray[id].value)

\* on a network of string rows one address was cleared by deleteIP and the
\* other written by a batch put
C33_Witness ==
    /\ network.ip_use_strings
    /\ \E h1, h2 \in hist :
        /\ h1.op = "deleteIP"
        /\ h2.op \in {"batch", "batch-create"}
        /\ h1.key # h2.key
        /\ Has(moray[RowId(h1.bucket, h1.key)].value, "ipaddr")
        /\ Has(moray[RowId(h2.bucket, h2.key)].value, "ipaddr")

-----------------------------------------------------------------------------
(* ldapFilter: the filter string built from a query object.  A filter is   *)
(* the sequence of the pieces that ldapFilter joins; '' has no piece       *)

\* the index of the IP bucket's schema
IPIndex ==
    {"belongs_to_type", "belongs_to_uuid", "owner_uuid", "ip", "ipaddr",
     "reserved", "v"}

getBucketObj(networkUUID) ==
    [name |-> bucketName(networkUUID), schema |-> [index |-> IPIndex]]

\* a call made without a bucket
NoBucket == [name |-> <<>>]

\* the values of a query object: a string, or an array of strings
StringVal(s) == [type |-> "string", s |-> s, arr |-> <<>>]
ArrayVal(arr) == [type |-> "object", s |-> <<>>, arr |-> arr]

\* the pieces of a filter
Piece(op, attr, val) == [op |-> op, attr |-> attr, val |-> val]
Raw(val) == <<Piece("raw", "", val)>>

RECURSIVE SplitAt(_, _)
\* the parts of s between the occurrences of the character ch
SplitAt(s, ch) ==
    IF \A i \in 1 .. Len(s) : s[i] # ch THEN <<s>>
    ELSE LET i == CHOOSE j \in 1 .. Len(s) :
                    s[j] = ch /\ \A k \in 1 .. (j - 1) : s[k] # ch
         IN <<SubSeq(s, 1, i - 1)>> \o SplitAt(SubSeq(s, i + 1, Len(s)), ch)

RECURSIVE TrimLeft(_)
TrimLeft(s) ==
    IF s # <<>> /\ Head(s) = 32 THEN TrimLeft(Tail(s)) ELSE s

RECURSIVE TrimRight(_)
TrimRight(s) ==
    IF s # <<>> /\ s[Len(s)] = 32
    THEN TrimRight(SubSeq(s, 1, Len(s) - 1)) ELSE s

\* s.split(/\s*,\s*/): the white space next to a comma goes with it
SplitCommas(s) ==
    LET parts == SplitAt(s, 44)
    IN [i \in 1 .. Len(parts) |->
            LET l == IF i > 1 THEN TrimLeft(parts[i]) ELSE parts[i]
            IN IF i < Len(parts) THEN TrimRight(l) ELSE l]

\* the keys of the query object in the order of its properties
KeyOrder ==
    <<"belongs_to_type", "belongs_to_uuid", "filter", "network_uuid",
      "owner_uuid">>

ObjectKeys(o) == SelectSeq(KeyOrder, LAMBDA k : k \in DOMAIN o)

\* ldapFilter: what the reducer pushes for key i
ldapFilterKey(inObj, bucket, i) ==
    IF Has(bucket, "schema") /\ i \notin bucket.schema.index THEN <<>>
    ELSE LET v == IF inObj[i].type = "string" /\ 44 \in Elems(inObj[i].s)
                  THEN ArrayVal(SplitCommas(inObj[i].s))
                  ELSE inObj[i]
         IN IF v.type = "object"
            THEN <<Piece("(|", "", <<>>)>>
                 \o [j \in 1 .. Len(v.arr) |->
                        IF v.arr[j] # <<>> /\ Head(v.arr[j]) = 33
                        THEN Piece("(!(=))", i, Tail(v.arr[j]))
                        ELSE Piece("(=)", i, v.arr[j])]
                 \o <<Piece(")", "", <<>>)>>
            ELSE <<Piece("(=)", i, v.s)>>

RECURSIVE ldapFilterReduce(_, _, _)
ldapFilterReduce(inObj, bucket, keys) ==
    IF keys = <<>> THEN <<>>
    ELSE ldapFilterKey(inObj, bucket, Head(keys))
         \o ldapFilterReduce(inObj, bucket, Tail(keys))

\* ldapFilter(inObj, bucket); inObj is undefined, a string or an object
ldapFilter(inObj, bucket) ==
    IF inObj.type = "undefined" THEN <<>>
    ELSE IF inObj.type = "string" THEN Raw(inObj.s)
    ELSE IF DOMAIN inObj.o = {} THEN <<>>
    ELSE IF Has(inObj.o, "filter") THEN Raw(inObj.o.filter.s)
    ELSE LET filterBy == ldapFilterReduce(inObj.o, bucket,
                                          ObjectKeys(inObj.o))
         IN IF Len(filterBy) > 1
            THEN <<Piece("(&", "", <<>>)>> \o filterBy
                 \o <<Piece(")", "", <<>>)>>
            ELSE filterBy

\* a search that always uses the default filter
filterOrDefault(filter, defaultFilter) == defaultFilter

\* listObjs, listNetworkIPs: ldapFilter(...) || the default filter
filterOr(filter, defaultFilter) ==
    IF filter = <<>> THEN defaultFilter ELSE filter

\* '(attr=*)'
Present(attr) == <<Piece("(=*)", attr, <<>>)>>

-----------------------------------------------------------------------------
(* Specification SpecFilter: ldapFilter and the filter of listObjs applied *)
(* to query objects                                                        *)

\* 'a', '!a', 'a , !b' and [ '!a', 'b' ]
QueryValues ==
    {StringVal(<<97>>), StringVal(<<33, 97>>),
     StringVal(<<97, 32, 44, 32, 33, 98>>),
     ArrayVal(<<(<<33, 97>>), (<<98>>)>>)}

QueryObjects ==
    UNION {[ks -> QueryValues] :
            ks \in SUBSET {"belongs_to_type", "network_uuid", "owner_uuid"}}

QueryInputs ==
    {[type |-> "undefined"], [type |-> "string", s |-> <<40, 97, 61, 42, 41>>]}
    \cup {[type |-> "object", o |-> o] : o \in QueryObjects}
    \cup {[type |-> "object",
           o |-> Merge([filter |-> StringVal(<<40, 97, 61, 42, 41>>)], o)] :
            o \in QueryObjects}

InitFilter ==
    /\ network = Network(TRUE, {})
    /\ moray = StartStore(network, [a \in Addrs |-> "absent"])
    /\ nextEtag = 0
    /\ \E inObj \in QueryInputs :
       \E bucket \in {getBucketObj(NetUUID), NoBucket} :
         callers = [c \in {1} |->
                        Merge(IdleCaller,
                              [pc |-> "have",
                               value |-> [inObj |-> inObj,
                                          bucket |-> bucket]])]
    /\ hist = NoLog
    /\ opts = NoOpts /\ sent = <<>> /\ cbres = NoCbres
    /\ txns = NoTxns /\ locks = NoLocks

FilterLdapFilter ==
    Applied("ldapFilter",
            [filter |-> ldapFilter(callers[1].value.inObj,
                                   callers[1].value.bucket)])

\* listObjs: the filter handed to findObjects
FilterListObjs ==
    Applied("listObjs",
            [filter |-> filterOr(ldapFilter(callers[1].value.inObj,
                                            callers[1].value.bucket),
                                 Present("uuid"))])

NextFilter == FilterLdapFilter \/ FilterListObjs

SpecFilter == InitFilter /\ [][NextFilter]_vars

\* the members of a query value: of a list, or of a comma-separated string
GroupMembers(v) ==
    IF v.type = "object" THEN v.arr
    ELSE IF 44 \in Elems(v.s) THEN SplitCommas(v.s) ELSE <<>>

IsGroup(v) == v.type = "object" \/ 44 \in Elems(v.s)

\* C35: for a query object and a bucket, ldapFilter's filter has a clause
\* for every key of the object that is in bucket.schema.index and nothing
\* for any other key: a plain value gives one equality clause, a list or a
\* comma-separated value a group with one clause per member, negated for
\* the members that start with '!'; more than one indexed key is wrapped in
\* a conjunction; with no indexed key the filter is '' and listObjs uses
\* its default filter.
C35_FilterFromIndexedKeys ==
    LET in == callers[1].value.inObj
        bucket == callers[1].value.bucket
        r == callers[1].ret.filter
        idx == DOMAIN in.o \cap bucket.schema.index
        of(k) == SelectSeq(r, LAMBDA p : p.attr = k)
    IN (/\ callers[1].pc \in {"ldapFilter", "listObjs"}
        /\ in.type = "object"
        /\ Has(bucket, "schema"))
       => IF idx = {}
          THEN r = IF callers[1].pc = "listObjs" THEN Present("uuid")
                    ELSE <<>>
          ELSE /\ \A i \in 1 .. Len(r) :
                    /\ r[i].op # "raw"
                    /\ r[i].attr # "" => r[i].attr \in idx
               /\ \A k \in idx :
                    IF IsGroup(in.o[k])
                    THEN /\ Len(of(k)) = Len(GroupMembers(in.o[k]))
                         /\ \A j \in 1 .. Len(of(k)) :
                              LET m == GroupMembers(in.o[k])[j]
                              IN IF m # <<>> /\ Head(m) = 33
                                 THEN of(k)[j] = Piece("(!(=))", k, Tail(m))
                                 ELSE of(k)[j] = Piece("(=)", k, m)
                    ELSE of(k) = <<Piece("(=)", k, in.o[k].s)>>
               /\ Cardinality({i \in 1 .. Len(r) : r[i].op = "(|"})
                    = Cardinality({k \in idx : IsGroup(in.o[k])})
               /\ Cardinality(idx) > 1
                    => r[1].op = "(&" /\ r[Len(r)].op = ")"

-----------------------------------------------------------------------------
(* listNetworkIPs (lib/models/ip/index.js) and the store's findObjects     *)

\* constants.DEFAULT_LIMIT and constants.DEFAULT_OFFSET: a page that holds
\* every row of the networks looked at here, from the first row on
DEFAULT_LIMIT == 1000
DEFAULT_OFFSET == 0

\* one clause of a filter, for a row's value
PieceHolds(p, value) ==
    IF p.op = "(=*)" THEN Has(value, p.attr)
    ELSE IF p.op = "(=)" THEN Has(value, p.attr) /\ value[p.attr] = p.val
    ELSE ~(Has(value, p.attr) /\ value[p.attr] = p.val)

RECURSIVE FilterHolds(_, _, _, _)
\* the filter's pieces read from left to right: the clauses of a group are
\* alternatives (any is the group's result so far), what is outside a
\* group must all hold
FilterHolds(filter, value, inGroup, any) ==
    IF filter = <<>> THEN TRUE
    ELSE LET p == Head(filter)
             rest == Tail(filter)
         IN IF p.op = "(&" THEN FilterHolds(rest, value, FALSE, FALSE)
            ELSE IF p.op = "(|" THEN FilterHolds(rest, value, TRUE, FALSE)
            ELSE IF p.op = ")"
                 THEN (inGroup => any)
                      /\ FilterHolds(rest, value, FALSE, FALSE)
            ELSE IF inGroup
                 THEN FilterHolds(rest, value, TRUE,
                                  any \/ PieceHolds(p, value))
                 ELSE PieceHolds(p, value)
                      /\ FilterHolds(rest, value, FALSE, FALSE)

\* the place of a row in an ascending sort on the attribute: ip is a
\* number, ipaddr an address
SortKey(value, attribute) ==
    IF attribute = "ipaddr" THEN toIPAddr(value.ipaddr) ELSE value.ip

\* findObjects(bucket, filter, { limit, offset, sort }): the rows of the
\* bucket that the filter holds for, sorted, from the offset on and no
\* more than the limit
findObjects(st, bucket, filter, listOpts) ==
    LET ids == {id \in DOMAIN st :
                    id[1] = bucket /\ FilterHolds(filter, st[id].value,
                                                  FALSE, FALSE)}
        all == CHOOSE arr \in [1 .. Cardinality(ids) -> ids] :
                /\ \A i, j \in DOMAIN arr : arr[i] = arr[j] => i = j
                /\ \A i, j \in DOMAIN arr :
                    i < j => SortKey(st[arr[i]].value,
                                     listOpts.sort.attribute)
                             <= SortKey(st[arr[j]].value,
                                        listOpts.sort.attribute)
        from == listOpts.offset + 1
        to == Min(Len(all), listOpts.offset + listOpts.limit)
    IN [i \in 1 .. (IF to < from THEN 0 ELSE to - from + 1) |->
            st[all[from + i - 1]]]

\* validate.params(LIST_SCHEMA, ...): network_uuid is required and a UUID
listIPsErrors(vparams) ==
    IF ~Has(vparams, "network_uuid") THEN <<missingParam("network_uuid")>>
    ELSE IF ~validUUID(vparams.network_uuid)
         THEN <<invalidParam("network_uuid", "invalid UUID")>>
    ELSE IF Has(vparams, "owner_uuid") /\ ~validUUID(vparams.owner_uuid.s)
         THEN <<invalidParam("owner_uuid", "invalid UUID")>>
    ELSE <<>>

\* listNetworkIPs(app, log, oparams, callback): the error and the IPs that
\* the callback gets; fail is a store that answers the search with an error
listNetworkIPs(st, oparams, fail) ==
    LET bucket == getBucketObj(oparams.network_uuid)
        lookupBy == IF oparams.network.ip_use_strings THEN "ipaddr" ELSE "ip"
        vparams == Delete(oparams, {"network"})
        valerr == listIPsErrors(vparams)
        lim == IF Has(vparams, "limit") THEN vparams.limit ELSE DEFAULT_LIMIT
        off == IF Has(vparams, "offset") THEN vparams.offset
               ELSE DEFAULT_OFFSET
        params == Delete(vparams, {"limit", "offset"})
        listOpts == [limit |-> lim, offset |-> off,
                     sort |-> [attribute |-> lookupBy, order |-> "ASC"]]
        recs == findObjects(st, bucket.name,
                    filterOr(ldapFilter([type |-> "object", o |-> params],
                                        bucket),
                             Present(lookupBy)),
                    listOpts)
    IN IF valerr # <<>> THEN [err |-> valerr, ips |-> <<>>]
       ELSE IF fail THEN [err |-> storeError(Err_Transport), ips |-> <<>>]
       ELSE [err |-> <<>>,
             ips |-> [i \in 1 .. Len(recs) |->
                        IP(Merge(recs[i].value,
                                 [network |-> oparams.network,
                                  network_uuid |-> params.network_uuid]))]]

-----------------------------------------------------------------------------
(* Specification SpecList: listNetworkIPs on buckets of numeric and of     *)
(* string rows                                                             *)

STR_zone == <<122, 111, 110, 101>>
STR_other == <<111, 116, 104, 101, 114>>

ListNetwork(use_strings) ==
    [Network(use_strings, {}) EXCEPT !.uuid = UUIDString(1)]

\* the row of an address: free again, or held by a zone or by another
\* kind of owner
ListValue(net, addr, kind) ==
    IPraw(IP(Merge([ip |-> addr, network |-> net, network_uuid |-> net.uuid,
                    reserved |-> FALSE],
        IF kind = "zone"
        THEN [belongs_to_type |-> STR_zone, belongs_to_uuid |-> UUIDString(5),
              owner_uuid |-> UUIDString(6)]
        ELSE IF kind = "other"
        THEN [belongs_to_type |-> STR_other,
              belongs_to_uuid |-> UUIDString(7),
              owner_uuid |-> UUIDString(8)]
        ELSE EmptyObj)))

ListStore(net, kinds) ==
    [id \in {RowId(bucketName(net.uuid), getIPKey(net.ip_use_strings, a)) :
                a \in {b \in Addrs : kinds[b] # "absent"}} |->
        LET a == CHOOSE b \in Addrs :
                    id[2] = getIPKey(net.ip_use_strings, b)
        IN [value |-> ListValue(net, a, kinds[a]),
            _etag |-> a - FirstAddr + 1]]

\* the query of a list request: belongs_to_type 'zone' or 'zone, other',
\* owner_uuid a UUID or 'z', limit and offset
ListQueries ==
    {Merge(Merge(t, o), Merge(l, f)) :
        t \in {EmptyObj} \cup
              {[belongs_to_type |-> StringVal(v)] :
                v \in {STR_zone, STR_zone \o <<44, 32>> \o STR_other}},
        o \in {EmptyObj} \cup
              {[owner_uuid |-> StringVal(v)] :
                v \in {UUIDString(6), <<122>>}},
        l \in {EmptyObj} \cup {[limit |-> n] : n \in 1 .. 2},
        f \in {EmptyObj} \cup {[offset |-> n] : n \in 0 .. 1}}

InitList ==
    /\ \E us \in BOOLEAN : network = ListNetwork(us)
    /\ \E kinds \in [Addrs -> {"absent", "free", "zone", "other"}] :
            moray = ListStore(network, kinds)
    /\ nextEtag = NAddr
    /\ \E q \in ListQueries :
         callers = [c \in {1} |->
                        Merge(IdleCaller,
                              [pc |-> "have",
                               value |-> Merge(q,
                                    [network |-> network,
                                     network_uuid |-> network.uuid])])]
    /\ hist = NoLog
    /\ opts = NoOpts /\ sent = <<>> /\ cbres = NoCbres
    /\ txns = NoTxns /\ locks = NoLocks

ListListNetworkIPs ==
    \E fail \in BOOLEAN :
        Applied("listNetworkIPs",
                listNetworkIPs(moray, callers[1].value, fail))

NextList == ListListNetworkIPs

SpecList == InitList /\ [][NextList]_vars

\* the row of the address is one that the query asks for
RowAsked(q, value) ==
    \A k \in DOMAIN q \cap OPTIONAL_PARAMS :
        /\ Has(value, k)
        /\ \/ value[k] = q[k].s
           \/ 44 \in Elems(q[k].s) /\ value[k] \in Elems(SplitCommas(q[k].s))

\* the addresses of the network that have a row the query asks for
AskedAddrs ==
    {a \in Addrs :
        LET id == RowId(bucketName(network.uuid),
                        getIPKey(network.ip_use_strings, a))
        IN id \in DOMAIN moray /\ RowAsked(callers[1].value, moray[id].value)}

Listed == [i \in 1 .. Len(callers[1].ret.ips) |->
                callers[1].ret.ips[i].params.ip]

ListedBound ==
    \A i \in 1 .. Len(callers[1].ret.ips) :
        /\ callers[1].ret.ips[i].params.network = network
        /\ callers[1].ret.ips[i].params.network_uuid = network.uuid
        /\ callers[1].ret.ips[i].use_strings = network.ip_use_strings

ListSucceeded ==
    callers[1].pc = "listNetworkIPs" /\ callers[1].ret.err = <<>>

\* C34 as stated: a successful listNetworkIPs returns exactly the addresses
\* that have a row matching the filter in the network's bucket, in
\* ascending order, each as an IP bound to the requested network.
C34_ListsExactlyTheRows ==
    ListSucceeded
    => /\ Elems(Listed) = AskedAddrs
       /\ \A i, j \in 1 .. Len(Listed) : i < j => Listed[i] < Listed[j]
       /\ ListedBound

\* C34 amended: a successful listNetworkIPs returns, of the addresses that
\* have a row matching the filter taken in ascending order, the ones after
\* the first offset (constants.DEFAULT_OFFSET by default) and no more than
\* limit (constants.DEFAULT_LIMIT by default), each as an IP bound to the
\* requested network; an address without a row is never listed.
C34_ListsPageOfTheRows ==
    ListSucceeded
    => LET q == callers[1].value
           off == IF Has(q, "offset") THEN q.offset ELSE DEFAULT_OFFSET
           lim == IF Has(q, "limit") THEN q.limit ELSE DEFAULT_LIMIT
       IN /\ \A i, j \in 1 .. Len(Listed) : i < j => Listed[i] < Listed[j]
          /\ Elems(Listed) =
                {a \in AskedAddrs :
                    LET before == Cardinality({b \in AskedAddrs : b < a})
                    IN before >= off /\ before < off + lim}
          /\ ListedBound

\* two addresses have a row, the list was asked from the second row on and
\* holds the higher address alone
C34_Witness ==
    /\ ListSucceeded
    /\ Cardinality(AskedAddrs) >= 2
    /\ Has(callers[1].value, "offset") /\ callers[1].value.offset = 1
    /\ Len(Listed) = 1
    /\ \E a \in AskedAddrs : a < Listed[1]

-----------------------------------------------------------------------------
(* Specification SpecRace: handlers that delete the same NIC at the same   *)
(* time; each reads the NIC, its network and its address, appends the NIC  *)
(* delete and the puts of the address and of the network to opts.batch,    *)
(* and commits with commitBatch                                            *)

RaceNic == [mac |-> 5]

RaceNicId == RowId(STR_napi_nics, NicKey(RaceNic))
RaceNetId == RowId(STR_napi_networks, network.uuid)

NicDelete(nic, etag) ==
    [bucket |-> STR_napi_nics, key |-> NicKey(nic), operation |-> "delete",
     options |-> [etag |-> etag]]

\* the requests a delete of the NIC puts into its batch, from the rows as
\* the handler read them; the put of the network is there for the NIC of
\* a fabric gateway
RaceRequests(st, withNet) ==
    {NicDelete(RaceNic, st[RaceNicId]._etag),
     IPunassignBatch(getIPResult(network, FirstAddr,
        getObject(st, IPBucket, getIPReadKey(network, FirstAddr))))}
    \cup (IF withNet
          THEN {Merge(NetworkPut,
                      [options |-> [etag |-> st[RaceNetId]._etag]])}
          ELSE {})

\* the place of the first request that the store turns down, 0 if none
batchFailsAt(st, batch, e) ==
    LET bad == {i \in 1 .. Len(batch) :
                    BatchRun(st, SubSeq(batch, 1, i), 1, e, <<>>).err
                        # Err_none}
    IN IF bad = {} THEN 0 ELSE CHOOSE i \in bad : \A j \in bad : i <= j

InitRace ==
    /\ \E us \in BOOLEAN : network = Network(us, {Owner(1)})
    /\ moray =
        WriteRow(
            WriteRow(StartStore(network,
                        [a \in Addrs |-> IF a = FirstAddr THEN "taken"
                                         ELSE "absent"]),
                     STR_napi_nics, NicKey(RaceNic), RaceNic, NAddr + 1),
            STR_napi_networks, network.uuid, [uuid |-> network.uuid],
            NAddr + 2)
    /\ nextEtag = NAddr + 2
    /\ callers = [c \in Callers |-> IdleCaller]
    /\ hist = NoLog
    /\ opts = NoOpts /\ sent = <<>> /\ cbres = NoCbres
    /\ txns = NoTxns /\ locks = NoLocks

\* the handler reads the rows and fills opts.batch, in some order
RaceBuild(c) ==
    /\ callers[c].pc = "idle"
    /\ IF RaceNicId \notin DOMAIN moray
       THEN callers' = [callers EXCEPT ![c] =
                Merge(IdleCaller, [pc |-> "done",
                                   err |-> Err_ResourceNotFound,
                                   ret |-> [sent |-> <<>>, failedAt |-> 0]])]
       ELSE \E withNet \in BOOLEAN :
            \E batch \in {SetToArray(RaceRequests(moray, withNet))} :
            \E p \in IndexPerms(Len(batch)) :
                callers' = [callers EXCEPT ![c] =
                    Merge(IdleCaller,
                          [pc |-> "built",
                           value |-> [batch |->
                                [i \in 1 .. Len(batch) |-> batch[p[i]]]]])]
    /\ UNCHANGED <<moray, nextEtag, network, hist, opts, sent, cbres,
                   txns, locks>>

\* commitBatch(opts, callback) of the handler's batch
RaceCommit(c) ==
    /\ callers[c].pc = "built"
    /\ \E batch \in commitBatchSends(callers[c].value.batch) :
        LET res == morayBatch(moray, batch, nextEtag) IN
        /\ moray' = res.st
        /\ nextEtag' = IF res.err # Err_none THEN nextEtag
                       ELSE nextEtag + NumPuts(batch)
        /\ callers' = [callers EXCEPT ![c] =
                Merge(IdleCaller,
                      [pc |-> "done", err |-> res.err,
                       ret |-> [sent |-> batch,
                                failedAt |-> batchFailsAt(moray, batch,
                                                          nextEtag)]])]
    /\ UNCHANGED <<network, hist, opts, sent, cbres, txns, locks>>

NextRace == \E c \in Callers : RaceBuild(c) \/ RaceCommit(c)

SpecRace == InitRace /\ [][NextRace]_vars

\* napi_nics before napi_networks before napi_ips_*
BucketRank(bucket) ==
    IF bucket = STR_napi_nics THEN 1
    ELSE IF bucket = STR_napi_networks THEN 2 ELSE 3

\* C36: in every batch that commitBatch sends, the napi_nics requests come
\* before the napi_networks requests and these before the napi_ips_*
\* requests; a delete of the NIC that loses the race is turned down at its
\* NIC request with ObjectNotFoundError, never at a network or address
\* request with EtagConflictError.
C36_NicEntryFirst ==
    \A c \in DOMAIN callers :
        (callers[c].pc = "done" /\ callers[c].ret.sent # <<>>)
        => LET b == callers[c].ret.sent IN
           /\ \A i, j \in 1 .. Len(b) :
                i < j => BucketRank(b[i].bucket) <= BucketRank(b[j].bucket)
           /\ callers[c].err # Err_none
                => /\ callers[c].err = Err_ObjectNotFound
                   /\ b[callers[c].ret.failedAt].bucket = STR_napi_nics

\* one delete went through and another, whose batch holds a put of the
\* address with the etag read before that, got ObjectNotFoundError
C36_Witness ==
    \E c, d \in DOMAIN callers :
        /\ callers[c].pc = "done" /\ callers[c].err = Err_none
        /\ callers[c].ret.sent # <<>>
        /\ callers[d].pc = "done" /\ callers[d].err = Err_ObjectNotFound
        /\ \E i \in 1 .. Len(callers[d].ret.sent) :
            LET r == callers[d].ret.sent[i] IN
            /\ r.bucket = IPBucket
            /\ ~EtagOk(moray, r.bucket, r.key, ReqEtag(r))

-----------------------------------------------------------------------------
(* Specification SpecPoolRace: two handlers that each update the stored    *)
(* pool once; the read of getNetworkPool and the write of updateObj are    *)
(* separate steps                                                          *)

InitPoolRace ==
    /\ network = PoolNetworks
    /\ \E o \in {EmptyObj, [owner_uuid |-> Owner(1)]} :
         moray = WriteRow(StartStore(Network(FALSE, {}),
                                     [a \in Addrs |-> "absent"]),
                    STR_napi_network_pools, PoolUUID,
                    poolRaw(NetworkPool(Merge(
                        [uuid |-> PoolUUID, name |-> "pool",
                         networks |-> <<PoolNet(1)>>], o))),
                    1)
    /\ nextEtag = 1
    /\ callers = [c \in Handlers |-> IdleCaller]
    /\ hist = NoLog
    /\ opts = NoOpts /\ sent = <<>> /\ cbres = NoCbres
    /\ txns = NoTxns /\ locks = NoLocks

\* updateNetworkPool up to the call of updateObj
PoolRaceGet(c, params) ==
    /\ callers[c].pc = "idle"
    /\ LET got == getObject(moray, STR_napi_network_pools, params.uuid) IN
       IF got.err # Err_none
       THEN callers' = [callers EXCEPT ![c] =
                Merge(IdleCaller, [pc |-> "failed", err |-> got.err])]
       ELSE LET oldPool == NetworkPool(got.rec.value) IN
            \E first \in FirstOf(network,
                            updatePoolParams(oldPool, params)) :
            LET v == updatePoolValidate(network, oldPool, params, first)
            IN IF v.err # {}
               THEN callers' = [callers EXCEPT ![c] =
                        Merge(IdleCaller, [pc |-> "failed",
                                           err |-> Err_Validation,
                                           ret |-> [fields |-> v.err]])]
               ELSE callers' = [callers EXCEPT ![c] = Merge(IdleCaller,
                        [pc |-> "pool_put",
                         updateOpts |-> [key |-> params.uuid],
                         value |-> poolToUpdate(oldPool, v.validated),
                         ret |-> [read |-> got.rec._etag]])]
    /\ UNCHANGED <<moray, nextEtag, network, hist, opts, sent, cbres,
                   txns, locks>>

\* updateObj with opts.replace, and the callback of updateNetworkPool
PoolRacePut(c) ==
    /\ callers[c].pc = "pool_put"
    /\ LET me == callers[c]
           r == putObject(moray, STR_napi_network_pools, me.updateOpts.key,
                    me.value, updateObjReplaceEtag, nextEtag + 1)
       IN /\ moray' = r.st
          /\ nextEtag' = nextEtag + 1
          /\ callers' = [callers EXCEPT ![c] =
                Merge(IdleCaller, [pc |-> "done", err |-> r.err,
                                   value |-> me.value, ret |-> me.ret])]
    /\ UNCHANGED <<network, hist, opts, sent, cbres, txns, locks>>

NextPoolRace ==
    \/ \E c \in Handlers : \E params \in UpdatePoolParams :
            PoolRaceGet(c, params)
    \/ \E c \in Handlers : PoolRacePut(c)

SpecPoolRace == InitPoolRace /\ [][NextPoolRace]_vars

\* C37: of two updateNetworkPool calls that read the same stored record of
\* the pool and both went on to write, one gets a version conflict: they do
\* not both succeed.
C37_LaterPoolWriteRejected ==
    \A c, d \in Handlers :
        (/\ c # d
         /\ callers[c].pc = "done" /\ callers[d].pc = "done"
         /\ callers[c].ret.read = callers[d].ret.read)
        => Err_EtagConflict \in {callers[c].err, callers[d].err}

-----------------------------------------------------------------------------
(* Specification SpecParallel: validateNetworks with the answers of its    *)
(* mod_net.get calls arriving one by one, in any order                     *)

\* tag before the first answer
NoTag == <<>>

\* a tag that follows the latest answer
validateNetworksTagLatest(tag, res) == res.nic_tag

\* validateNetworks: tag after the answer res
validateNetworksTag(tag, res) == IF tag = NoTag THEN res.nic_tag ELSE tag

\* the callback of one mod_net.get: acc holds notFound, tag,
\* tagsNotMatching, validated and nets; found tells whether the call gave a
\* network
validateNetworksAnswer(acc, uuid, found, res) ==
    IF ~found
    THEN [acc EXCEPT !.notFound = Append(acc.notFound, uuid)]
    ELSE LET tag == validateNetworksTag(acc.tag, res) IN
         IF res.nic_tag # tag
         THEN [acc EXCEPT !.tag = tag,
                          !.tagsNotMatching = Append(acc.tagsNotMatching, uuid)]
         ELSE [acc EXCEPT !.tag = tag,
                          !.validated = Append(acc.validated, uuid),
                          !.nets = Append(acc.nets, res)]

\* the function that forEachParallel calls after the last answer
validateNetworksEnd(acc) ==
    IF Len(acc.notFound) # 0
    THEN [err |-> {"networks"}, msg |-> "unknown", invalid |-> acc.notFound]
    ELSE IF Len(acc.tagsNotMatching) # 0
    THEN [err |-> {"networks"}, msg |-> "tags", invalid |-> <<>>]
    ELSE [err |-> {}, networks |-> acc.validated, _networks |-> acc.nets]

InitParallel ==
    /\ network = PoolNetworks
    /\ moray = StartStore(Network(FALSE, {}), [a \in Addrs |-> "absent"])
    /\ nextEtag = 0
    /\ \E uuids \in Arrays({PoolNet(n) : n \in {1, 2, 4, 5}}, MaxNetList)
                    \cup {[i \in 1 .. (MAX_NETS + 1) |-> PoolNet(1)]} :
       \E failed \in SUBSET {PoolNet(2)} :
         callers = [c \in {1} |->
                        Merge(IdleCaller,
                              [pc |-> "have",
                               value |-> [uuids |-> uuids, failed |-> failed,
                                          pending |-> {}, calls |-> 0,
                                          notFound |-> <<>>, tag |-> NoTag,
                                          tagsNotMatching |-> <<>>,
                                          validated |-> <<>>,
                                          nets |-> <<>>]])]
    /\ hist = NoLog
    /\ opts = NoOpts /\ sent = <<>> /\ cbres = NoCbres
    /\ txns = NoTxns /\ locks = NoLocks

ParallelStep(me) ==
    /\ callers' = [callers EXCEPT ![1] = me]
    /\ UNCHANGED <<moray, nextEtag, network, hist, opts, sent, cbres,
                   txns, locks>>

\* validateNetworks up to the return of forEachParallel
ParallelStart ==
    /\ callers[1].pc = "have"
    /\ LET me == callers[1] IN
       IF validateNetworksTooMany(me.value.uuids)
       THEN ParallelStep([me EXCEPT !.pc = "done", !.value.calls = 1,
                            !.ret = [err |-> {"networks"}, msg |-> "maximum",
                                     invalid |-> <<>>]])
       ELSE ParallelStep([me EXCEPT !.pc = "lookups",
                            !.value.pending = 1 .. Len(me.value.uuids)])

\* mod_net.get for the i-th UUID answers
ParallelAnswer(i) ==
    /\ callers[1].pc = "lookups"
    /\ i \in callers[1].value.pending
    /\ LET me == callers[1]
           uuid == me.value.uuids[i]
           nets == networksAnswered(network, me.value.failed)
           found == uuid \in DOMAIN nets
       IN ParallelStep([me EXCEPT !.value =
                Merge(validateNetworksAnswer(me.value, uuid, found,
                        IF found THEN nets[uuid] ELSE EmptyObj),
                      [pending |-> me.value.pending \ {i}])])

\* every lookup has answered: forEachParallel calls its callback
ParallelEnd ==
    /\ callers[1].pc = "lookups"
    /\ callers[1].value.pending = {}
    /\ ParallelStep([callers[1] EXCEPT
            !.pc = "done",
            !.value.calls = callers[1].value.calls + 1,
            !.ret = validateNetworksEnd(callers[1].value)])

NextParallel ==
    \/ ParallelStart
    \/ \E i \in 1 .. (MAX_NETS + 1) : ParallelAnswer(i)
    \/ ParallelEnd

SpecParallel == InitParallel /\ [][NextParallel]_vars

\* C38: whatever the order of the answers, validateNetworks gives the
\* unknown-network error with the UUIDs that gave no network if there is
\* one, else the tags error if the networks are on more than one nic tag,
\* else the UUIDs and the networks given; its callback is called once, and
\* not before every lookup has answered.
C38_OrderDoesNotMatter ==
    LET me == callers[1]
        uuids == Elems(me.value.uuids)
        nets == networksAnswered(network, me.value.failed)
        unknown == uuids \ DOMAIN nets
        tags == {nets[u].nic_tag : u \in uuids \cap DOMAIN nets}
    IN /\ me.pc = "lookups" => me.value.calls = 0
       /\ me.pc = "done"
            => /\ me.value.calls = 1
               /\ me.value.pending = {}
               /\ IF validateNetworksTooMany(me.value.uuids)
                  THEN me.ret.msg = "maximum"
                  ELSE IF unknown # {}
                  THEN /\ me.ret.err # {} /\ me.ret.msg = "unknown"
                       /\ Elems(me.ret.invalid) = unknown
                  ELSE IF Cardinality(tags) > 1
                  THEN me.ret.err # {} /\ me.ret.msg = "tags"
                  ELSE /\ me.ret.err = {}
                       /\ Elems(me.ret.networks) = uuids
                       /\ Elems(me.ret._networks) = {nets[u] : u \in uuids}

\* networks of two nic tags were given, and the answer that came first was
\* not that of the first UUID of the list
C38_Witness ==
    /\ callers[1].pc = "done"
    /\ callers[1].ret.err # {} /\ callers[1].ret.msg = "tags"
    /\ callers[1].value.tag # network[callers[1].value.uuids[1]].nic_tag

-----------------------------------------------------------------------------
(* Specification SpecValidate: one handler that serves the requests on the *)
(* addresses of a network, or the requests on a network pool; opts.api     *)
(* tells which, and network holds the network or the networks by UUID      *)

\* validate.params of deleteNetworkPool: uuid is required and a UUID (the
\* empty string is none)
deleteNetworkPoolErrors(params) ==
    IF ~Has(params, "uuid") \/ params.uuid = NoOwnerUUID THEN {"uuid"}
    ELSE {}

\* a deleteNetworkPool that calls the store before it looks at the errors
deleteNetworkPoolCallsAlways(params) ==
    <<[bucket |-> STR_napi_network_pools, operation |-> "delete",
       key |-> IF Has(params, "uuid") THEN params.uuid ELSE NoOwnerUUID]>>

\* deleteNetworkPool: its calls of the store
deleteNetworkPoolCalls(params) ==
    IF deleteNetworkPoolErrors(params) # {} THEN <<>>
    ELSE <<[bucket |-> STR_napi_network_pools, operation |-> "delete",
            key |-> params.uuid]>>

DeletePoolParams == {EmptyObj, [uuid |-> NoOwnerUUID], [uuid |-> PoolUUID]}

InitValidate ==
    /\ \E api \in {"ips", "network_pools"} :
        /\ opts = [batch |-> <<>>, api |-> api]
        /\ IF api = "ips"
           THEN \E us \in BOOLEAN : \E o \in 1 .. 2 :
                    network = Network(us, {Owner(o)})
           ELSE network = PoolNetworks
    /\ moray = StartStore(Network(FALSE, {}), [a \in Addrs |-> "absent"])
    \* the store has versions left for three writes
    /\ nextEtag = MaxEtag - 3
    /\ callers = [c \in {Server} |-> IdleCaller]
    /\ hist = NoLog
    /\ sent = <<>> /\ cbres = NoCbres
    /\ txns = NoTxns /\ locks = NoLocks

\* deleteNetworkPool(app, log, params, callback)
DeleteNetworkPool(c, params) ==
    /\ HandlerFree(c)
    \* sent: the latest calls that went to the store
    /\ sent' = IF deleteNetworkPoolCalls(params) = <<>> THEN sent
               ELSE deleteNetworkPoolCalls(params)
    /\ IF deleteNetworkPoolErrors(params) # {}
       THEN /\ FailedValidation(c, deleteNetworkPoolErrors(params))
            /\ moray' = moray
       ELSE IF ~HasRow(moray, STR_napi_network_pools, params.uuid)
       THEN /\ Failed(c, Err_ObjectNotFound)
            /\ moray' = moray
       ELSE /\ moray' = RemoveRow(moray, STR_napi_network_pools, params.uuid)
            /\ callers' = [callers EXCEPT ![c] = IdleCaller]
    /\ UNCHANGED <<nextEtag, network, hist, opts, cbres, txns, locks>>

NextValidate ==
    \/ /\ opts.api = "ips"
       /\ \/ \E a \in Addrs : GetIP(Server, a)
          \/ \E a \in Addrs : \E body \in IPBodies(Server) :
                CreateIP(Server, a, body)
          \/ \E withOld \in BOOLEAN : \E body \in IPBodies(Server) :
                UpdateIPGet(Server, body, withOld)
          \/ UpdateIPPut(Server)
    \/ /\ opts.api = "network_pools"
       /\ \/ \E params \in CreatePoolParams : CreateNetworkPool(Server, params)
          \/ \E params \in UpdatePoolParams :
                UpdateNetworkPoolGet(Server, params)
          \/ UpdateNetworkPoolPut(Server)
          \/ \E params \in DeletePoolParams :
                DeleteNetworkPool(Server, params)

SpecValidate == InitValidate /\ [][NextValidate]_vars

\* C39: a request of createIP, updateIP, createNetworkPool,
\* updateNetworkPool or deleteNetworkPool that fails validation leaves
\* every row of the store as it was and sends the store no write, and its
\* callback gets the validation errors.
C39_FailedValidationWritesNothing ==
    [][\A c \in DOMAIN callers :
        (callers'[c].err = Err_Validation /\ callers'[c] # callers[c])
        => /\ moray' = moray
           /\ nextEtag' = nextEtag
           /\ sent' = sent
           /\ callers'[c].ret.fields # {}
           /\ callers'[c].updateOpts = EmptyObj]_vars

\* a pool is stored and a request was turned down by validation
C39_Witness ==
    /\ \E id \in DOMAIN moray : id[1] = STR_napi_network_pools
    /\ callers[Server].err = Err_Validation
    /\ callers[Server].ret.fields # {}

====
